---------------------------- MODULE Spec2Model ----------------------------
(***************************************************************************)
(* Chord keyboards of the tenboard repository: the HandsState chord model, *)
(* the ASETNIOP two-layer layout, the random Tenboard layouts and the      *)
(* Keyboard typing protocol.                                               *)
(*                                                                         *)
(* A Rust char is modelled by its Unicode scalar value (97 is the letter   *)
(* a, 32 the space, 9 the tab, 10 the newline).  A [T; 10] array whose     *)
(* positions are 0..9 in the source is a sequence indexed 1..10 here, so   *)
(* position p of the source is index p + 1.                                *)
(***************************************************************************)
EXTENDS Integers, Sequences, FiniteSets, TLC

VARIABLES
  keyboard,   \* the keyboard object the calls are made on
  call,       \* the last call made: its operation, receiver, text and outcome
  hands,      \* the last use of HandsState alone: an iterator over a chord
              \* space and what it has yielded, or a call of combine
  metrics,    \* the metric accumulators that are fed
  fed         \* the chords fed to the accumulators since they were built

vars == <<keyboard, call, hands, metrics, fed>>

---------------------------------------------------------------------------
(* Bounds of the model.                                                    *)

\* longest text typed on an Asetniop keyboard
MaxLen == 3

\* longest text typed on the other keyboards
MaxTextLen == 2

\* the shuffles explored are i |-> mul * i + rot (mod length), mul <= MaxMul
MaxMul == 5

\* ... and rot <= MaxRot
MaxRot == 1

\* positions on each side of the middle of the array that the chords handed
\* to combine may press
MaxSpan == 2

\* chords fed to a metric accumulator
MaxFed == 3

---------------------------------------------------------------------------
(* std: Option, Result, iterator adaptors, HashMap.                        *)

None == [is_some |-> FALSE]

Some(v) == [is_some |-> TRUE, value |-> v]

Ok(v) == [tag |-> "Ok", value |-> v]

Err(e) == [tag |-> "Err", error |-> e]

\* how a call that returns no Result ends: with its value or with a panic
Returned(v) == [tag |-> "Returned", value |-> v]

Panicked(message) == [tag |-> "Panicked", message |-> message]

\* lo..hi, the upper end excluded
Range(lo, hi) == [k \in 1..(hi - lo) |-> lo + (k - 1)]

Map(s, F(_)) == [k \in 1..Len(s) |-> F(s[k])]

Filter(s, P(_)) == SelectSeq(s, P)

RECURSIVE Flatten(_)
Flatten(ss) == IF ss = <<>> THEN <<>> ELSE Head(ss) \o Flatten(Tail(ss))

FlatMap(s, F(_)) == Flatten(Map(s, F))

\* a zip that goes on to the end of a, taking b over again from its start
Zip_cycling(a, b) ==
  [k \in 1..Len(a) |-> <<a[k], b[((k - 1) % Len(b)) + 1]>>]

\* Iterator::zip stops with the shorter of the two
Zip(a, b) ==
  [k \in 1..(IF Len(a) <= Len(b) THEN Len(a) ELSE Len(b)) |-> <<a[k], b[k]>>]

\* HashMap::from / HashMap::from_iter: the pairs are inserted in order, a
\* later pair replaces an earlier one with the same key
HashMap_from(pairs) ==
  [key \in {pairs[i][1] : i \in 1..Len(pairs)} |->
     LET last == CHOOSE i \in 1..Len(pairs) :
                   /\ pairs[i][1] = key
                   /\ \A j \in (i + 1)..Len(pairs) : pairs[j][1] # key
     IN pairs[last][2]]

HashMap_get(map, key) == IF key \in DOMAIN map THEN Some(map[key]) ELSE None

HashMap_values(map) == {map[key] : key \in DOMAIN map}

---------------------------------------------------------------------------
(* keyboard/hands.rs: FingerState and HandsState.                          *)

Pressed == 1

Released == 0

FingerState_from_bool(value) == IF value THEN Pressed ELSE Released

FingerState_from_i32(value) == FingerState_from_bool(value > 0)

HandsState_from(value) == [p \in 1..10 |-> FingerState_from_i32(value[p])]

left_thumb == HandsState_from(<<0, 0, 0, 0, 1, 0, 0, 0, 0, 0>>)

\* the right thumb at the last position of the array
right_thumb_last == HandsState_from(<<0, 0, 0, 0, 0, 0, 0, 0, 0, 1>>)

right_thumb == HandsState_from(<<0, 0, 0, 0, 0, 1, 0, 0, 0, 0>>)

\* combine releasing the fingers that both chords press
combine_toggle(self, other) ==
  [p \in 1..10 |->
     IF other[p] = Pressed
     THEN (IF self[p] = Pressed THEN Released ELSE Pressed)
     ELSE self[p]]

\* combine copying every finger of other, the Released ones too
combine_overwrite(self, other) ==
  [p \in 1..10 |-> other[p]]

combine(self, other) ==
  [p \in 1..10 |-> IF other[p] = Pressed THEN Pressed ELSE self[p]]

\* count_pressed with the filter keeping the Released fingers
count_pressed_released(self) ==
  Cardinality({p \in 1..10 : self[p] = Released})

count_pressed(self) == Cardinality({p \in 1..10 : self[p] = Pressed})

\* iterate_one_key_no_thumbs chaining the right hand before the left
iterate_one_key_no_thumbs_right_first ==
  LET one(i) == HandsState_from([p \in 1..10 |-> IF p = i + 1 THEN 1 ELSE 0])
  IN Map(Range(6, 10) \o Range(0, 4), one)

iterate_one_key_no_thumbs ==
  LET one(i) == HandsState_from([p \in 1..10 |-> IF p = i + 1 THEN 1 ELSE 0])
  IN Map(Range(0, 4) \o Range(6, 10), one)

\* the flat_map of iterate_two_key_no_thumbs with the i != j filter dropped
iterate_two_key_no_thumbs_unfiltered ==
  LET a(i, j) == [p \in 1..8 |-> IF p = i + 1 \/ p = j + 1 THEN 1 ELSE 0]
      widen(e) == HandsState_from(
        <<e[1], e[2], e[3], e[4], 0, 0, e[5], e[6], e[7], e[8]>>)
      inner(i) == Map(Range(i, 8), LAMBDA j : widen(a(i, j)))
  IN FlatMap(Range(0, 7), inner)

\* the inner loop of iterate_two_key_no_thumbs running over all of 0..8
\* instead of i..8
iterate_two_key_no_thumbs_all_j ==
  LET a(i, j) == [p \in 1..8 |-> IF p = i + 1 \/ p = j + 1 THEN 1 ELSE 0]
      widen(e) == HandsState_from(
        <<e[1], e[2], e[3], e[4], 0, 0, e[5], e[6], e[7], e[8]>>)
      inner(i) == Map(Filter(Range(0, 8), LAMBDA j : i # j),
                      LAMBDA j : widen(a(i, j)))
  IN FlatMap(Range(0, 7), inner)

iterate_two_key_no_thumbs ==
  LET a(i, j) == [p \in 1..8 |-> IF p = i + 1 \/ p = j + 1 THEN 1 ELSE 0]
      widen(e) == HandsState_from(
        <<e[1], e[2], e[3], e[4], 0, 0, e[5], e[6], e[7], e[8]>>)
      inner(i) == Map(Filter(Range(i, 8), LAMBDA j : i # j),
                      LAMBDA j : widen(a(i, j)))
  IN FlatMap(Range(0, 7), inner)

iterate_one_two_key_no_thumbs ==
  iterate_one_key_no_thumbs \o iterate_two_key_no_thumbs

\* the third chain of iterate_one_two_key_with_thumbs combining with the
\* left thumb again
iterate_one_two_key_with_thumbs_left_twice ==
  iterate_one_two_key_no_thumbs
    \o Map(iterate_one_two_key_no_thumbs, LAMBDA hs : combine(hs, left_thumb))
    \o Map(iterate_one_two_key_no_thumbs, LAMBDA hs : combine(hs, left_thumb))

\* the third chain of iterate_one_two_key_with_thumbs combining the chords
\* of the second chain, not the bare ones, with the right thumb
iterate_one_two_key_with_thumbs_both_thumbs ==
  iterate_one_two_key_no_thumbs
    \o Map(iterate_one_two_key_no_thumbs, LAMBDA hs : combine(hs, left_thumb))
    \o Map(iterate_one_two_key_no_thumbs,
           LAMBDA hs : combine(combine(hs, left_thumb), right_thumb))

iterate_one_two_key_with_thumbs ==
  iterate_one_two_key_no_thumbs
    \o Map(iterate_one_two_key_no_thumbs, LAMBDA hs : combine(hs, left_thumb))
    \o Map(iterate_one_two_key_no_thumbs, LAMBDA hs : combine(hs, right_thumb))

iterate_one_two_key_all_states ==
  iterate_one_two_key_with_thumbs \o <<left_thumb, right_thumb>>

---------------------------------------------------------------------------
(* keyboard.rs: the character sets, NoSuchChar and its Display.            *)

LOWERCASE_CHARS ==
  <<97, 98, 99, 100, 101, 102, 103, 104, 105, 106, 107, 108, 109, 110, 111,
    112, 113, 114, 115, 116, 117, 118, 119, 120, 121, 122>>

UPPERCASE_CHARS ==
  <<65, 66, 67, 68, 69, 70, 71, 72, 73, 74, 75, 76, 77, 78, 79, 80, 81, 82,
    83, 84, 85, 86, 87, 88, 89, 90>>

\* "01234567890": the digit 0 is listed twice
DIGIT_CHARS == <<48, 49, 50, 51, 52, 53, 54, 55, 56, 57, 48>>

PUNCTUATION_CHARS ==
  <<96, 45, 61, 91, 93, 92, 59, 39, 44, 46, 47, 126, 33, 64, 35, 36, 37, 94,
    38, 42, 40, 41, 95, 43, 123, 125, 124, 58, 34, 60, 62, 63, 32, 9, 10>>

TYPABLE_CHARS ==
  <<97, 98, 99, 100, 101, 102, 103, 104, 105, 106, 107, 108, 109, 110, 111,
    112, 113, 114, 115, 116, 117, 118, 119, 120, 121, 122>>
  \o <<65, 66, 67, 68, 69, 70, 71, 72, 73, 74, 75, 76, 77, 78, 79, 80, 81,
       82, 83, 84, 85, 86, 87, 88, 89, 90>>
  \o <<96, 49, 50, 51, 52, 53, 54, 55, 56, 57, 48, 45, 61, 91, 93, 92, 59,
       39, 44, 46, 47>>
  \o <<126, 33, 64, 35, 36, 37, 94, 38, 42, 40, 41, 95, 43, 123, 125, 124,
       58, 34, 60, 62, 63>>
  \o <<32, 9, 10>>

NoSuchChar(ch) == [ch |-> ch]

\* "char " and " was not found in keyboard"
NoSuchChar_fmt_no_char(self) ==
  <<99, 104, 97, 114, 32>>
  \o <<32, 119, 97, 115, 32, 110, 111, 116, 32, 102, 111, 117, 110, 100, 32,
       105, 110, 32, 107, 101, 121, 98, 111, 97, 114, 100>>

\* "char {} was not found in keyboard"
NoSuchChar_fmt(self) ==
  <<99, 104, 97, 114, 32>> \o <<self.ch>>
  \o <<32, 119, 97, 115, 32, 110, 111, 116, 32, 102, 111, 117, 110, 100, 32,
       105, 110, 32, 107, 101, 121, 98, 111, 97, 114, 100>>

\* char::is_lowercase, char::is_uppercase (Unicode Lowercase / Uppercase) for
\* the scalar values below 256, char::is_ascii_digit, char::to_ascii_lowercase
is_lowercase(ch) ==
  \/ ch \in 97..122
  \/ ch \in {170, 181, 186}
  \/ ch \in 223..246
  \/ ch \in 248..255

is_uppercase(ch) == ch \in 65..90 \/ ch \in 192..214 \/ ch \in 216..222

is_ascii_digit(ch) == ch \in 48..57

to_ascii_lowercase(ch) == IF ch \in 65..90 THEN ch + 32 ELSE ch

---------------------------------------------------------------------------
(* keyboard/layout/asetniop.rs: the ASETNIOP two-layer layout.             *)

SWITCH_COMBINATION == <<Pressed, Released, Released, Released, Released,
                        Released, Released, Released, Released, Pressed>>

LETTERS_LAYOUT ==
  HashMap_from(<<
    << 97, HandsState_from(<<1,0,0,0,0,0,0,0,0,0>>)>>,  \* a
    << 98, HandsState_from(<<0,0,0,1,0,0,1,0,0,0>>)>>,  \* b
    << 99, HandsState_from(<<0,1,0,1,0,0,0,0,0,0>>)>>,  \* c
    <<100, HandsState_from(<<0,1,1,0,0,0,0,0,0,0>>)>>,  \* d
    <<101, HandsState_from(<<0,0,1,0,0,0,0,0,0,0>>)>>,  \* e
    <<102, HandsState_from(<<1,0,0,1,0,0,0,0,0,0>>)>>,  \* f
    <<103, HandsState_from(<<0,0,0,1,0,0,0,0,1,0>>)>>,  \* g
    <<104, HandsState_from(<<0,0,0,0,0,0,1,1,0,0>>)>>,  \* h
    <<105, HandsState_from(<<0,0,0,0,0,0,0,1,0,0>>)>>,  \* i
    <<106, HandsState_from(<<0,1,0,0,0,0,1,0,0,0>>)>>,  \* j
    <<107, HandsState_from(<<0,1,0,0,0,0,0,1,0,0>>)>>,  \* k
    <<108, HandsState_from(<<0,0,0,0,0,0,0,1,1,0>>)>>,  \* l
    <<109, HandsState_from(<<0,0,0,0,0,0,1,0,0,1>>)>>,  \* m
    <<110, HandsState_from(<<0,0,0,0,0,0,1,0,0,0>>)>>,  \* n
    <<111, HandsState_from(<<0,0,0,0,0,0,0,0,1,0>>)>>,  \* o
    <<112, HandsState_from(<<0,0,0,0,0,0,0,0,0,1>>)>>,  \* p
    <<113, HandsState_from(<<1,0,0,0,0,0,1,0,0,0>>)>>,  \* q
    <<114, HandsState_from(<<0,0,1,1,0,0,0,0,0,0>>)>>,  \* r
    <<115, HandsState_from(<<0,1,0,0,0,0,0,0,0,0>>)>>,  \* s
    <<116, HandsState_from(<<0,0,0,1,0,0,0,0,0,0>>)>>,  \* t
    <<117, HandsState_from(<<0,0,0,0,0,0,1,0,1,0>>)>>,  \* u
    <<118, HandsState_from(<<0,0,0,1,0,0,0,1,0,0>>)>>,  \* v
    <<119, HandsState_from(<<1,1,0,0,0,0,0,0,0,0>>)>>,  \* w
    <<120, HandsState_from(<<1,0,1,0,0,0,0,0,0,0>>)>>,  \* x
    <<121, HandsState_from(<<0,0,1,0,0,0,1,0,0,0>>)>>,  \* y
    <<122, HandsState_from(<<1,0,0,0,0,0,0,1,0,0>>)>>,  \* z
    << 65, HandsState_from(<<1,0,0,0,1,0,0,0,0,0>>)>>,  \* A
    << 66, HandsState_from(<<0,0,0,1,1,0,1,0,0,0>>)>>,  \* B
    << 67, HandsState_from(<<0,1,0,1,1,0,0,0,0,0>>)>>,  \* C
    << 68, HandsState_from(<<0,1,1,0,1,0,0,0,0,0>>)>>,  \* D
    << 69, HandsState_from(<<0,0,1,0,1,0,0,0,0,0>>)>>,  \* E
    << 70, HandsState_from(<<1,0,0,1,1,0,0,0,0,0>>)>>,  \* F
    << 71, HandsState_from(<<0,0,0,1,1,0,0,0,1,0>>)>>,  \* G
    << 72, HandsState_from(<<0,0,0,0,1,0,1,1,0,0>>)>>,  \* H
    << 73, HandsState_from(<<0,0,0,0,1,0,0,1,0,0>>)>>,  \* I
    << 74, HandsState_from(<<0,1,0,0,1,0,1,0,0,0>>)>>,  \* J
    << 75, HandsState_from(<<0,1,0,0,1,0,0,1,0,0>>)>>,  \* K
    << 76, HandsState_from(<<0,0,0,0,1,0,0,1,1,0>>)>>,  \* L
    << 77, HandsState_from(<<0,0,0,0,1,0,1,0,0,1>>)>>,  \* M
    << 78, HandsState_from(<<0,0,0,0,1,0,1,0,0,0>>)>>,  \* N
    << 79, HandsState_from(<<0,0,0,0,1,0,0,0,1,0>>)>>,  \* O
    << 80, HandsState_from(<<0,0,0,0,1,0,0,0,0,1>>)>>,  \* P
    << 81, HandsState_from(<<1,0,0,0,1,0,1,0,0,0>>)>>,  \* Q
    << 82, HandsState_from(<<0,0,1,1,1,0,0,0,0,0>>)>>,  \* R
    << 83, HandsState_from(<<0,1,0,0,1,0,0,0,0,0>>)>>,  \* S
    << 84, HandsState_from(<<0,0,0,1,1,0,0,0,0,0>>)>>,  \* T
    << 85, HandsState_from(<<0,0,0,0,1,0,1,0,1,0>>)>>,  \* U
    << 86, HandsState_from(<<0,0,0,1,1,0,0,1,0,0>>)>>,  \* V
    << 87, HandsState_from(<<1,1,0,0,1,0,0,0,0,0>>)>>,  \* W
    << 88, HandsState_from(<<1,0,1,0,1,0,0,0,0,0>>)>>,  \* X
    << 89, HandsState_from(<<0,0,1,0,1,0,1,0,0,0>>)>>,  \* Y
    << 90, HandsState_from(<<1,0,0,0,1,0,0,1,0,0>>)>>,  \* Z
    << 33, HandsState_from(<<0,0,0,0,0,0,0,1,0,1>>)>>,  \* !
    << 39, HandsState_from(<<0,0,1,0,0,0,0,0,0,1>>)>>,  \* apostrophe
    << 59, HandsState_from(<<0,0,0,0,0,0,0,0,1,1>>)>>,  \* ;
    << 44, HandsState_from(<<0,0,1,0,0,0,0,1,0,0>>)>>,  \* ,
    << 46, HandsState_from(<<0,1,0,0,0,0,0,0,1,0>>)>>,  \* .
    << 63, HandsState_from(<<1,0,0,0,0,0,0,0,0,1>>)>>,  \* ?
    << 40, HandsState_from(<<1,0,0,0,0,0,0,0,1,0>>)>>,  \* (
    << 41, HandsState_from(<<0,1,0,0,0,0,0,0,0,1>>)>>,  \* )
    << 45, HandsState_from(<<0,0,1,0,0,0,0,0,1,0>>)>>,  \* -
    <<  9, HandsState_from(<<1,1,1,1,0,0,0,0,0,0>>)>>,  \* tab
    << 10, HandsState_from(<<0,0,0,0,0,0,1,1,1,1>>)>>,  \* newline
    << 64, HandsState_from(<<0,0,0,0,1,0,0,1,0,1>>)>>,  \* @
    << 34, HandsState_from(<<0,0,1,0,1,0,0,0,0,1>>)>>,  \* double quote
    << 58, HandsState_from(<<0,0,0,0,1,0,0,0,1,1>>)>>,  \* :
    << 60, HandsState_from(<<0,0,1,0,1,0,0,1,0,0>>)>>,  \* <
    << 62, HandsState_from(<<0,1,0,0,1,0,0,0,1,0>>)>>,  \* >
    << 47, HandsState_from(<<1,0,0,0,1,0,0,0,0,1>>)>>,  \* /
    << 91, HandsState_from(<<1,0,0,0,1,0,0,0,1,0>>)>>,  \* [
    << 93, HandsState_from(<<0,1,0,0,1,0,0,0,0,1>>)>>,  \* ]
    << 95, HandsState_from(<<0,0,1,0,1,0,0,0,1,0>>)>>  \* _
  >>)
SYMBOLS_LAYOUT ==
  HashMap_from(<<
    << 49, HandsState_from(<<1,0,0,0,0,0,0,0,0,0>>)>>,  \* 1
    << 96, HandsState_from(<<1,0,1,0,0,0,0,0,0,0>>)>>,  \* grave accent
    << 91, HandsState_from(<<1,0,0,1,0,0,0,0,0,0>>)>>,  \* [
    << 33, HandsState_from(<<1,0,0,0,0,0,0,1,0,0>>)>>,  \* !
    << 40, HandsState_from(<<1,0,0,0,0,0,0,0,1,0>>)>>,  \* (
    << 63, HandsState_from(<<1,0,0,0,0,0,0,0,0,1>>)>>,  \* ?
    << 50, HandsState_from(<<0,1,0,0,0,0,0,0,0,0>>)>>,  \* 2
    << 45, HandsState_from(<<0,1,1,0,0,0,0,0,0,0>>)>>,  \* -
    << 61, HandsState_from(<<0,1,0,0,0,0,0,1,0,0>>)>>,  \* =
    << 46, HandsState_from(<<0,1,0,0,0,0,0,0,1,0>>)>>,  \* .
    << 41, HandsState_from(<<0,1,0,0,0,0,0,0,0,1>>)>>,  \* )
    << 51, HandsState_from(<<0,0,1,0,0,0,0,0,0,0>>)>>,  \* 3
    << 44, HandsState_from(<<0,0,1,0,0,0,0,0,1,0>>)>>,  \* ,
    << 39, HandsState_from(<<0,0,1,0,0,0,0,0,0,1>>)>>,  \* apostrophe
    << 52, HandsState_from(<<0,0,0,1,0,0,0,0,0,0>>)>>,  \* 4
    << 53, HandsState_from(<<0,0,1,1,0,0,0,0,0,0>>)>>,  \* 5
    << 54, HandsState_from(<<0,0,0,0,0,0,1,1,0,0>>)>>,  \* 6
    << 55, HandsState_from(<<0,0,0,0,0,0,1,0,0,0>>)>>,  \* 7
    << 93, HandsState_from(<<0,0,0,0,0,0,1,0,0,1>>)>>,  \* ]
    << 56, HandsState_from(<<0,0,0,0,0,0,0,1,0,0>>)>>,  \* 8
    << 57, HandsState_from(<<0,0,0,0,0,0,0,0,1,0>>)>>,  \* 9
    << 59, HandsState_from(<<0,0,0,0,0,0,0,0,1,1>>)>>,  \* ;
    <<126, HandsState_from(<<1,0,1,0,1,0,0,0,0,0>>)>>,  \* ~
    <<123, HandsState_from(<<1,0,0,1,1,0,0,0,0,0>>)>>,  \* {
    << 33, HandsState_from(<<1,0,0,0,1,0,0,1,0,0>>)>>,  \* !
    << 47, HandsState_from(<<1,0,0,0,1,0,0,0,0,1>>)>>,  \* /
    << 64, HandsState_from(<<0,1,0,0,1,0,0,0,0,0>>)>>,  \* @
    << 95, HandsState_from(<<0,1,1,0,1,0,0,0,0,0>>)>>,  \* _
    << 43, HandsState_from(<<0,1,0,0,1,0,0,1,0,0>>)>>,  \* +
    << 62, HandsState_from(<<0,1,0,0,1,0,0,0,1,0>>)>>,  \* >
    << 35, HandsState_from(<<0,0,1,0,1,0,0,0,0,0>>)>>,  \* #
    << 37, HandsState_from(<<0,0,1,1,1,0,0,0,0,0>>)>>,  \* %
    << 60, HandsState_from(<<0,0,1,0,1,0,0,1,0,0>>)>>,  \* <
    << 36, HandsState_from(<<0,0,0,1,1,0,0,0,0,0>>)>>,  \* $
    << 38, HandsState_from(<<0,0,0,0,1,0,1,0,0,0>>)>>,  \* &
    << 94, HandsState_from(<<0,0,0,0,1,0,1,1,0,0>>)>>,  \* ^
    <<125, HandsState_from(<<0,0,0,0,1,0,1,0,0,1>>)>>,  \* }
    << 42, HandsState_from(<<0,0,0,0,1,0,0,1,0,0>>)>>,  \* *
    << 58, HandsState_from(<<0,0,0,0,1,0,0,0,1,1>>)>>  \* :
  >>)

\* A Layout holds a &'static reference to one of the two tables: the
\* reference is the name of the table, Deref the table it refers to.
Deref(reference) ==
  IF reference = "LETTERS_LAYOUT" THEN LETTERS_LAYOUT ELSE SYMBOLS_LAYOUT

Layout_new_letters == [tag |-> "Letters", table |-> "LETTERS_LAYOUT"]

Layout_new_symbols == [tag |-> "Symbols", table |-> "SYMBOLS_LAYOUT"]

\* swap that leaves the Symbols layer where it is
swap_letters_only(self) ==
  IF self.tag = "Letters" THEN Layout_new_symbols ELSE self

swap(self) ==
  IF self.tag = "Letters" THEN Layout_new_symbols ELSE Layout_new_letters

Layout_default == Layout_new_letters

Asetniop_default == [type |-> "Asetniop", layout |-> Layout_default]

\* the for body with the switch chord pushed after the found chord
Asetniop_for_body_switch_last(st, ch) ==
  LET maybe_hs == HashMap_get(Deref(st.layout.table), ch)
      pushed == IF maybe_hs.is_some
                  THEN Append(st.handstates, maybe_hs.value)
                  ELSE st.handstates
      swapped == swap(st.layout)
      maybe_hs2 == HashMap_get(Deref(swapped.table), ch)
  IN IF maybe_hs2.is_some
       THEN [layout |-> swapped,
             handstates |-> pushed \o <<maybe_hs2.value, SWITCH_COMBINATION>>,
             ret |-> None]
       ELSE [layout |-> swapped, handstates |-> pushed,
             ret |-> Some(Err(NoSuchChar(ch)))]

\* the for body without the push of the chord found before the swap
Asetniop_for_body_no_first_push(st, ch) ==
  LET swapped == swap(st.layout)
      maybe_hs2 == HashMap_get(Deref(swapped.table), ch)
  IN IF maybe_hs2.is_some
       THEN [layout |-> swapped,
             handstates |-> st.handstates
                              \o <<SWITCH_COMBINATION, maybe_hs2.value>>,
             ret |-> None]
       ELSE [layout |-> swapped, handstates |-> st.handstates,
             ret |-> Some(Err(NoSuchChar(ch)))]

\* the for body that goes on to the next character instead of returning Err
Asetniop_for_body_no_return(st, ch) ==
  LET maybe_hs == HashMap_get(Deref(st.layout.table), ch)
      pushed == IF maybe_hs.is_some
                  THEN Append(st.handstates, maybe_hs.value)
                  ELSE st.handstates
      swapped == swap(st.layout)
      maybe_hs2 == HashMap_get(Deref(swapped.table), ch)
  IN IF maybe_hs2.is_some
       THEN [layout |-> swapped,
             handstates |-> pushed \o <<SWITCH_COMBINATION, maybe_hs2.value>>,
             ret |-> None]
       ELSE [layout |-> swapped, handstates |-> pushed, ret |-> None]

\* the for body that takes the chord found before the swap for the
\* character when the layer after the swap has none
Asetniop_for_body_either_layer(st, ch) ==
  LET maybe_hs == HashMap_get(Deref(st.layout.table), ch)
      pushed == IF maybe_hs.is_some
                  THEN Append(st.handstates, maybe_hs.value)
                  ELSE st.handstates
      swapped == swap(st.layout)
      maybe_hs2 == HashMap_get(Deref(swapped.table), ch)
  IN IF maybe_hs2.is_some
       THEN [layout |-> swapped,
             handstates |-> pushed \o <<SWITCH_COMBINATION, maybe_hs2.value>>,
             ret |-> None]
       ELSE [layout |-> swapped, handstates |-> pushed,
             ret |-> IF maybe_hs.is_some THEN None
                     ELSE Some(Err(NoSuchChar(ch)))]

\* One iteration of the for loop of Asetniop::try_type_chars on the
\* character ch: st.layout is self.layout, st.handstates the vector built so
\* far, and ret becomes Some(r) when the iteration returns r from the call.
Asetniop_for_body(st, ch) ==
  LET maybe_hs == HashMap_get(Deref(st.layout.table), ch)
      pushed == IF maybe_hs.is_some
                  THEN Append(st.handstates, maybe_hs.value)
                  ELSE st.handstates
      swapped == swap(st.layout)
      maybe_hs2 == HashMap_get(Deref(swapped.table), ch)
  IN IF maybe_hs2.is_some
       THEN [layout |-> swapped,
             handstates |-> pushed \o <<SWITCH_COMBINATION, maybe_hs2.value>>,
             ret |-> None]
       ELSE [layout |-> swapped, handstates |-> pushed,
             ret |-> Some(Err(NoSuchChar(ch)))]

RECURSIVE Asetniop_for(_, _)
Asetniop_for(st, chars) ==
  IF chars = <<>>
    THEN [self |-> [type |-> "Asetniop", layout |-> st.layout],
          result |-> Ok(st.handstates)]
    ELSE LET next == Asetniop_for_body(st, Head(chars))
         IN IF next.ret.is_some
              THEN [self |-> [type |-> "Asetniop", layout |-> next.layout],
                    result |-> next.ret.value]
              ELSE Asetniop_for(next, Tail(chars))

\* try_type_chars putting the layer back to what it was when it fails
Asetniop_try_type_chars_restoring(self, chars) ==
  LET done == Asetniop_for([layout |-> self.layout, handstates |-> <<>>,
                            ret |-> None], chars)
  IN IF done.result.tag = "Err" THEN [done EXCEPT !.self = self] ELSE done

\* Asetniop::try_type_chars: the receiver after the call and the result
Asetniop_try_type_chars(self, chars) ==
  Asetniop_for([layout |-> self.layout, handstates |-> <<>>, ret |-> None],
               chars)

---------------------------------------------------------------------------
(* keyboard/layout/tenboard.rs: the random Tenboard layouts.               *)

ok_or(option, err) == IF option.is_some THEN Ok(option.value) ELSE Err(err)

RECURSIVE GCD(_, _)
GCD(a, b) == IF b = 0 THEN a ELSE GCD(b, a % b)

\* The outcomes of the random generator explored for a shuffle of n items.
Rngs(n) ==
  {[mul |-> m, rot |-> r] : m \in {a \in 1..MaxMul : GCD(a, n) = 1},
                            r \in 0..MaxRot}

\* SliceRandom::shuffle: a permutation of v picked by the generator; the
\* permutations explored send position k to mul * k + rot modulo the length.
shuffle(v, rng) ==
  [k \in 1..Len(v) |-> v[((rng.mul * (k - 1) + rng.rot) % Len(v)) + 1]]

TenboardUnconstrained_new_random(rng) ==
  LET handsstates == shuffle(iterate_one_two_key_all_states, rng)
  IN [type |-> "TenboardUnconstrained",
      layout |-> HashMap_from(Zip(TYPABLE_CHARS, handsstates))]

TenboardUnconstrained_try_type_char(self, ch) ==
  ok_or(HashMap_get(self.layout, ch), NoSuchChar(ch))

\* new_random drawing the chords from the all-states space
TenboardThumbConstrained_new_random_all_states(gen_bool, rng) ==
  LET thumbs == IF gen_bool THEN <<left_thumb, right_thumb>>
                            ELSE <<right_thumb, left_thumb>>
      handsstates == shuffle(iterate_one_two_key_all_states, rng)
      chars_iter == Filter(TYPABLE_CHARS, LAMBDA ch : ch # 32 /\ ch # 10)
  IN [type |-> "TenboardThumbConstrained",
      whitespace_hs |-> thumbs[1],
      newline_hs |-> thumbs[2],
      layout |-> HashMap_from(Zip(chars_iter, handsstates))]

TenboardThumbConstrained_new_random(gen_bool, rng) ==
  LET thumbs == IF gen_bool THEN <<left_thumb, right_thumb>>
                            ELSE <<right_thumb, left_thumb>>
      handsstates == shuffle(iterate_one_two_key_with_thumbs, rng)
      chars_iter == Filter(TYPABLE_CHARS, LAMBDA ch : ch # 32 /\ ch # 10)
  IN [type |-> "TenboardThumbConstrained",
      whitespace_hs |-> thumbs[1],
      newline_hs |-> thumbs[2],
      layout |-> HashMap_from(Zip(chars_iter, handsstates))]

TenboardThumbConstrained_try_type_char(self, ch) ==
  CASE ch = 32 -> Ok(self.whitespace_hs)
    [] ch = 10 -> Ok(self.newline_hs)
    [] OTHER -> ok_or(HashMap_get(self.layout, ch), NoSuchChar(ch))

\* new_random combining the punctuation chords with whitespace_hs
TenboardModifierConstrained_new_random_whitespace(gen_bool, rng1, rng2) ==
  LET thumbs == IF gen_bool THEN <<left_thumb, right_thumb>>
                            ELSE <<right_thumb, left_thumb>>
      whitespace_hs == thumbs[1]
      newline_hs == thumbs[2]
      lowercase_digit_hs == shuffle(iterate_one_two_key_no_thumbs, rng1)
      punctuation_hs ==
        shuffle(Map(iterate_one_two_key_no_thumbs,
                    LAMBDA hs : combine(hs, whitespace_hs)), rng2)
  IN [type |-> "TenboardModifierConstrained",
      whitespace_hs |-> whitespace_hs,
      newline_hs |-> newline_hs,
      lowercase_digit_layout |->
        HashMap_from(Zip(LOWERCASE_CHARS \o DIGIT_CHARS, lowercase_digit_hs)),
      punctuation_layout |->
        HashMap_from(Zip(Filter(PUNCTUATION_CHARS,
                                LAMBDA ch : ch # 32 /\ ch # 10),
                         punctuation_hs))]

TenboardModifierConstrained_new_random(gen_bool, rng1, rng2) ==
  LET thumbs == IF gen_bool THEN <<left_thumb, right_thumb>>
                            ELSE <<right_thumb, left_thumb>>
      whitespace_hs == thumbs[1]
      newline_hs == thumbs[2]
      lowercase_digit_hs == shuffle(iterate_one_two_key_no_thumbs, rng1)
      punctuation_hs ==
        shuffle(Map(iterate_one_two_key_no_thumbs,
                    LAMBDA hs : combine(hs, newline_hs)), rng2)
  IN [type |-> "TenboardModifierConstrained",
      whitespace_hs |-> whitespace_hs,
      newline_hs |-> newline_hs,
      lowercase_digit_layout |->
        HashMap_from(Zip(LOWERCASE_CHARS \o DIGIT_CHARS, lowercase_digit_hs)),
      punctuation_layout |->
        HashMap_from(Zip(Filter(PUNCTUATION_CHARS,
                                LAMBDA ch : ch # 32 /\ ch # 10),
                         punctuation_hs))]

\* try_type_char looking an uppercase letter up without lower-casing it
TenboardModifierConstrained_try_type_char_no_lowercase(self, ch) ==
  LET option ==
        CASE ch = 32 -> Some(self.whitespace_hs)
          [] ch = 10 -> Some(self.newline_hs)
          [] ch \notin {32, 10} /\ (is_lowercase(ch) \/ is_ascii_digit(ch)) ->
               HashMap_get(self.lowercase_digit_layout, ch)
          [] /\ ch \notin {32, 10}
             /\ ~(is_lowercase(ch) \/ is_ascii_digit(ch))
             /\ is_uppercase(ch) ->
               LET found == HashMap_get(self.lowercase_digit_layout, ch)
               IN IF found.is_some
                    THEN Some(combine(found.value, self.whitespace_hs))
                    ELSE None
          [] OTHER -> HashMap_get(self.punctuation_layout, ch)
  IN ok_or(option, NoSuchChar(ch))

TenboardModifierConstrained_try_type_char(self, ch) ==
  LET option ==
        CASE ch = 32 -> Some(self.whitespace_hs)
          [] ch = 10 -> Some(self.newline_hs)
          [] ch \notin {32, 10} /\ (is_lowercase(ch) \/ is_ascii_digit(ch)) ->
               HashMap_get(self.lowercase_digit_layout, ch)
          [] /\ ch \notin {32, 10}
             /\ ~(is_lowercase(ch) \/ is_ascii_digit(ch))
             /\ is_uppercase(ch) ->
               LET found == HashMap_get(self.lowercase_digit_layout,
                                        to_ascii_lowercase(ch))
               IN IF found.is_some
                    THEN Some(combine(found.value, self.whitespace_hs))
                    ELSE None
          [] OTHER -> HashMap_get(self.punctuation_layout, ch)
  IN ok_or(option, NoSuchChar(ch))

\* Tenboard::try_type_char of the implementing type
Tenboard_try_type_char(self, ch) ==
  CASE self.type = "TenboardUnconstrained" ->
         TenboardUnconstrained_try_type_char(self, ch)
    [] self.type = "TenboardThumbConstrained" ->
         TenboardThumbConstrained_try_type_char(self, ch)
    [] self.type = "TenboardModifierConstrained" ->
         TenboardModifierConstrained_try_type_char(self, ch)

\* collect() of an iterator of Result into a Result of a Vec: the values up
\* to the first Err, which is returned alone
RECURSIVE Result_collect_from(_, _)
Result_collect_from(vec, results) ==
  IF results = <<>> THEN Ok(vec)
  ELSE IF Head(results).tag = "Err" THEN Head(results)
  ELSE Result_collect_from(Append(vec, Head(results).value), Tail(results))

Result_collect(results) == Result_collect_from(<<>>, results)

\* collect() of the Ok values only
Tenboard_try_type_chars_skip_errors(self, chars) ==
  LET results == Map(chars, LAMBDA ch : Tenboard_try_type_char(self, ch))
      oks == Filter(results, LAMBDA r : r.tag = "Ok")
  IN [self |-> self, result |-> Ok(Map(oks, LAMBDA r : r.value))]

\* try_type_chars taking the typed characters out of the tables
Tenboard_try_type_chars_consuming(self, chars) ==
  LET typed == {chars[k] : k \in 1..Len(chars)}
      left(map) == [key \in DOMAIN map \ typed |-> map[key]]
  IN [self |->
        IF self.type = "TenboardModifierConstrained"
        THEN [self EXCEPT !.lowercase_digit_layout = left(@),
                          !.punctuation_layout = left(@)]
        ELSE [self EXCEPT !.layout = left(@)],
      result |->
        Result_collect(Map(chars,
                           LAMBDA ch : Tenboard_try_type_char(self, ch)))]

\* impl<T: Tenboard> Keyboard for T
Tenboard_try_type_chars(self, chars) ==
  [self |-> self,
   result |->
     Result_collect(Map(chars, LAMBDA ch : Tenboard_try_type_char(self, ch)))]

---------------------------------------------------------------------------
(* keyboard/layout/tenboard.rs, keyboard/hands.rs: the derived Serialize   *)
(* and Deserialize of the random layouts, through serde_json. A map is the *)
(* sequence of its entries, a key the characters of its JSON string.       *)

\* Serialize_repr of FingerState: the discriminant as u8
FingerState_serialize(value) ==
  CASE value = Pressed -> 1
    [] value = Released -> 0

\* Deserialize_repr of FingerState: the variant of the discriminant
FingerState_deserialize(number) ==
  CASE number = 1 -> Ok(Pressed)
    [] number = 0 -> Ok(Released)
    [] OTHER -> Err("invalid value")

\* Serialize of the newtype HandsState: the array of its ten fingers
HandsState_serialize(self) == Map(self, FingerState_serialize)

\* Deserialize of HandsState: an array of ten finger states
HandsState_deserialize(numbers) ==
  LET fingers == Map(numbers, FingerState_deserialize)
  IN IF Len(numbers) # 10 THEN Err("invalid length")
     ELSE IF \E p \in 1..10 : fingers[p].tag = "Err" THEN Err("invalid value")
     ELSE Ok([p \in 1..10 |-> fingers[p].value])

\* a char as the key of a JSON map: a string of the character, with the
\* quote, the backslash, the tab and the newline escaped
char_serialize(ch) ==
  CASE ch = 34 -> <<92, 34>>
    [] ch = 92 -> <<92, 92>>
    [] ch = 9 -> <<92, 116>>
    [] ch = 10 -> <<92, 110>>
    [] OTHER -> <<ch>>

\* the string that a JSON string stands for
RECURSIVE json_unescape(_)
json_unescape(string) ==
  IF string = <<>> THEN <<>>
  ELSE IF Head(string) = 92 /\ Len(string) > 1
    THEN <<CASE string[2] = 116 -> 9
             [] string[2] = 110 -> 10
             [] OTHER -> string[2]>>
         \o json_unescape(SubSeq(string, 3, Len(string)))
  ELSE <<Head(string)>> \o json_unescape(Tail(string))

\* Deserialize of char from a string: a string of one character
char_deserialize(string) ==
  IF Len(string) = 1 THEN Ok(string[1]) ELSE Err("invalid value")

\* the keys of a map, which are ASCII characters, from the least to the
\* greatest
Ascending(keys) == Filter(Range(0, 128), LAMBDA ch : ch \in keys)

\* HashMap::iter: the entries in an order that the hasher picks, here one of
\* the two orders of the keys
HashMap_iter(map, order) ==
  LET keys == Ascending(DOMAIN map)
      n == Len(keys)
  IN [k \in 1..n |->
        LET key == IF order = "ascending" THEN keys[k] ELSE keys[n + 1 - k]
        IN <<key, map[key]>>]

\* Serialize of HashMap<char, HandsState>, flattened into the map of the
\* struct: an entry for each key
HashMap_serialize(map, order) ==
  Map(HashMap_iter(map, order),
      LAMBDA entry : [key |-> char_serialize(entry[1]),
                      value |-> HandsState_serialize(entry[2])])

\* a field written under its serde name
field_serialize(name, hs) ==
  [key |-> char_serialize(name), value |-> HandsState_serialize(hs)]

\* #[derive(Serialize)] of the three layouts: the renamed fields, then the
\* entries of the flattened tables
Tenboard_serialize(self, order) ==
  CASE self.type = "TenboardUnconstrained" ->
         HashMap_serialize(self.layout, order)
    [] self.type = "TenboardThumbConstrained" ->
         <<field_serialize(32, self.whitespace_hs),
           field_serialize(10, self.newline_hs)>>
         \o HashMap_serialize(self.layout, order)
    [] self.type = "TenboardModifierConstrained" ->
         <<field_serialize(32, self.whitespace_hs),
           field_serialize(10, self.newline_hs)>>
         \o HashMap_serialize(self.lowercase_digit_layout, order)
         \o HashMap_serialize(self.punctuation_layout, order)

\* the entries of a map with the name of a field, by their position
Named(entries, name) ==
  {k \in 1..Len(entries) : json_unescape(entries[k].key) = <<name>>}

\* Deserialize of a renamed HandsState field: its one entry
field_deserialize(entries, name) ==
  LET at == Named(entries, name)
  IN IF at = {} THEN Err("missing field")
     ELSE IF Cardinality(at) > 1 THEN Err("duplicate field")
     ELSE HandsState_deserialize(entries[CHOOSE k \in at : TRUE].value)

\* Deserialize of a flattened HashMap<char, HandsState>: every entry that is
\* not a field of the struct, whatever other flattened field reads it too
flatten_deserialize(entries, names) ==
  LET rest == Filter(entries,
                     LAMBDA entry :
                       \A name \in names : json_unescape(entry.key) # <<name>>)
      keys == Map(rest, LAMBDA entry : char_deserialize(json_unescape(entry.key)))
      values == Map(rest, LAMBDA entry : HandsState_deserialize(entry.value))
  IN IF \E k \in 1..Len(rest) : keys[k].tag = "Err" \/ values[k].tag = "Err"
     THEN Err("invalid value")
     ELSE Ok(HashMap_from([k \in 1..Len(rest) |->
                             <<keys[k].value, values[k].value>>]))

TenboardUnconstrained_deserialize(entries) ==
  LET layout == flatten_deserialize(entries, {})
  IN IF layout.tag = "Err" THEN layout
     ELSE Ok([type |-> "TenboardUnconstrained", layout |-> layout.value])

TenboardThumbConstrained_deserialize(entries) ==
  LET whitespace_hs == field_deserialize(entries, 32)
      newline_hs == field_deserialize(entries, 10)
      layout == flatten_deserialize(entries, {32, 10})
  IN IF whitespace_hs.tag = "Err" THEN whitespace_hs
     ELSE IF newline_hs.tag = "Err" THEN newline_hs
     ELSE IF layout.tag = "Err" THEN layout
     ELSE Ok([type |-> "TenboardThumbConstrained",
              whitespace_hs |-> whitespace_hs.value,
              newline_hs |-> newline_hs.value,
              layout |-> layout.value])

\* the second flattened table left without the entries that the first read
TenboardModifierConstrained_deserialize_taken(entries) ==
  LET whitespace_hs == field_deserialize(entries, 32)
      newline_hs == field_deserialize(entries, 10)
      lowercase_digit_layout == flatten_deserialize(entries, {32, 10})
  IN IF whitespace_hs.tag = "Err" THEN whitespace_hs
     ELSE IF newline_hs.tag = "Err" THEN newline_hs
     ELSE IF lowercase_digit_layout.tag = "Err" THEN lowercase_digit_layout
     ELSE Ok([type |-> "TenboardModifierConstrained",
              whitespace_hs |-> whitespace_hs.value,
              newline_hs |-> newline_hs.value,
              lowercase_digit_layout |-> lowercase_digit_layout.value,
              punctuation_layout |-> HashMap_from(<<>>)])

TenboardModifierConstrained_deserialize(entries) ==
  LET whitespace_hs == field_deserialize(entries, 32)
      newline_hs == field_deserialize(entries, 10)
      lowercase_digit_layout == flatten_deserialize(entries, {32, 10})
      punctuation_layout == flatten_deserialize(entries, {32, 10})
  IN IF whitespace_hs.tag = "Err" THEN whitespace_hs
     ELSE IF newline_hs.tag = "Err" THEN newline_hs
     ELSE IF lowercase_digit_layout.tag = "Err" THEN lowercase_digit_layout
     ELSE IF punctuation_layout.tag = "Err" THEN punctuation_layout
     ELSE Ok([type |-> "TenboardModifierConstrained",
              whitespace_hs |-> whitespace_hs.value,
              newline_hs |-> newline_hs.value,
              lowercase_digit_layout |-> lowercase_digit_layout.value,
              punctuation_layout |-> punctuation_layout.value])

\* #[derive(Deserialize)] of the layout type
Tenboard_deserialize(type, entries) ==
  CASE type = "TenboardUnconstrained" ->
         TenboardUnconstrained_deserialize(entries)
    [] type = "TenboardThumbConstrained" ->
         TenboardThumbConstrained_deserialize(entries)
    [] type = "TenboardModifierConstrained" ->
         TenboardModifierConstrained_deserialize(entries)

---------------------------------------------------------------------------
(* layout/tenboard.rs: the table-backed TenboardUnconstrained with the     *)
(* skipping conversion.                                                    *)

TenboardUnconstrained_new(layout) ==
  [type |-> "layout::TenboardUnconstrained", layout |-> layout]

TableTenboard_try_type_chars(self, chars) ==
  [self |-> self,
   result |->
     Result_collect(Map(chars,
       LAMBDA ch : ok_or(HashMap_get(self.layout, ch), NoSuchChar(ch))))]

\* the conversion that stops at the first character without a chord
type_chars_until_missing(self, chars) ==
  LET options == Map(chars, LAMBDA ch : HashMap_get(self.layout, ch))
      missing == {k \in 1..Len(options) : ~options[k].is_some}
      stop == IF missing = {} THEN Len(options) + 1
              ELSE CHOOSE k \in missing : \A j \in missing : k <= j
  IN [self |-> self,
      result |-> Returned([k \in 1..(stop - 1) |-> options[k].value])]

\* TenboardUnconstrained::type_chars_skip: filter_map over the table
type_chars_skip(self, chars) ==
  LET found == Filter(Map(chars, LAMBDA ch : HashMap_get(self.layout, ch)),
                      LAMBDA option : option.is_some)
  IN [self |-> self,
      result |-> Returned(Map(found, LAMBDA option : option.value))]

---------------------------------------------------------------------------
(* keyboard.rs: the Keyboard trait and the TestKeyboard of its tests.      *)

TestKeyboard_new == [type |-> "TestKeyboard"]

TestKeyboard_try_type_char(self, ch) ==
  CASE ch = 97 -> Ok(HandsState_from(<<1, 0, 0, 0, 0, 0, 0, 0, 0, 0>>))
    [] ch = 98 -> Ok(HandsState_from(<<0, 1, 0, 0, 0, 0, 0, 0, 0, 0>>))
    [] ch = 99 -> Ok(HandsState_from(<<0, 0, 1, 0, 0, 0, 0, 0, 0, 0>>))
    [] OTHER -> Err(NoSuchChar(ch))

TestKeyboard_try_type_chars(self, chars) ==
  [self |-> self,
   result |->
     Result_collect(Map(chars, LAMBDA ch : TestKeyboard_try_type_char(self, ch)))]

\* Keyboard::try_type_chars of the implementing type
Keyboard_try_type_chars(self, chars) ==
  CASE self.type = "Asetniop" -> Asetniop_try_type_chars(self, chars)
    [] self.type = "TestKeyboard" -> TestKeyboard_try_type_chars(self, chars)
    [] self.type = "layout::TenboardUnconstrained" ->
         TableTenboard_try_type_chars(self, chars)
    [] OTHER -> Tenboard_try_type_chars(self, chars)

\* type_chars that returns what was typed so far instead of panicking
Keyboard_type_chars_no_panic(self, chars) ==
  LET tried == Keyboard_try_type_chars(self, chars)
  IN [self |-> tried.self,
      result |-> IF tried.result.tag = "Ok" THEN Returned(tried.result.value)
                 ELSE Returned(<<>>)]

\* Keyboard::type_chars: unwrap_or_else(|e| panic!("{e}"))
Keyboard_type_chars(self, chars) ==
  LET tried == Keyboard_try_type_chars(self, chars)
  IN [self |-> tried.self,
      result |-> IF tried.result.tag = "Ok" THEN Returned(tried.result.value)
                 ELSE Panicked(NoSuchChar_fmt(tried.result.error))]

---------------------------------------------------------------------------
(* keyboard/metrics.rs: the Metric accumulators.                           *)

\* impl From<FingerState> for u32
u32_from_FingerState(value) ==
  CASE value = Pressed -> 1
    [] value = Released -> 0

\* 2^24: an f32 has 24 bits of significand
F32_EXACT == 16777216

\* the unit in the last place of the f32 nearest to a natural number v
RECURSIVE f32_ulp(_)
f32_ulp(v) == IF v < F32_EXACT THEN 1 ELSE 2 * f32_ulp(v \div 2)

\* v as f32: the nearest f32, ties to the even significand
as_f32(v) ==
  LET ulp == f32_ulp(v)
      q == v \div ulp
      r == v % ulp
  IN IF 2 * r > ulp \/ (2 * r = ulp /\ q % 2 = 1) THEN (q + 1) * ulp
     ELSE q * ulp

\* the f32 sum of two f32 that are natural numbers
f32_add(a, b) == as_f32(a + b)

\* Iterator::sum of f32: the additions one after the other, from 0.0
RECURSIVE f32_sum_from(_, _)
f32_sum_from(acc, values) ==
  IF values = <<>> THEN acc
  ELSE f32_sum_from(f32_add(acc, Head(values)), Tail(values))

f32_sum(values) == f32_sum_from(0, values)

FingerUsage_new == [presses |-> [i \in 1..10 |-> 0]]

\* update_once assigning the state of the finger instead of adding it
FingerUsage_update_once_assign(self, handstate) ==
  [self EXCEPT !.presses =
     [i \in 1..10 |-> u32_from_FingerState(handstate[i])]]

FingerUsage_update_once(self, handstate) ==
  [self EXCEPT !.presses =
     [i \in 1..10 |-> self.presses[i] + u32_from_FingerState(handstate[i])]]

\* Metric::update of a FingerUsage: update_once for each chord, in order
RECURSIVE FingerUsage_update(_, _)
FingerUsage_update(self, handstates) ==
  IF handstates = <<>> THEN self
  ELSE FingerUsage_update(FingerUsage_update_once(self, Head(handstates)),
                          Tail(handstates))

FingerUsage_score(self) ==
  f32_sum(Map([i \in 1..10 |-> self.presses[i]], as_f32))

\* HandsState::hand_iter: chunks(5), the left hand then the right
hand_iter(self) == <<SubSeq(self, 1, 5), SubSeq(self, 6, 10)>>

\* Iterator::sum of u32
RECURSIVE u32_sum(_)
u32_sum(values) ==
  IF values = <<>> THEN 0 ELSE Head(values) + u32_sum(Tail(values))

HandUsage_new == [presses |-> <<0, 0>>]

HandUsage_update_once(self, handstate) ==
  [self EXCEPT !.presses =
     [h \in 1..2 |->
        self.presses[h]
          + u32_sum(Map(hand_iter(handstate)[h], u32_from_FingerState))]]

HandUsage_score(self) ==
  f32_sum(Map([h \in 1..2 |-> self.presses[h]], as_f32))

\* the conversion splitting the counters at 4: the left thumb counted with
\* the right hand
HandUsage_from_FingerUsage_split_at_4(value) ==
  LET lh == SubSeq(value.presses, 1, 4)
      rh == SubSeq(value.presses, 5, 10)
  IN [presses |-> <<u32_sum(lh), u32_sum(rh)>>]

\* impl From<FingerUsage> for HandUsage: split_at(5) and the two sums
HandUsage_from_FingerUsage(value) ==
  LET lh == SubSeq(value.presses, 1, 5)
      rh == SubSeq(value.presses, 6, 10)
  IN [presses |-> <<u32_sum(lh), u32_sum(rh)>>]

FingerAlternation_new ==
  [last_handstate |-> HandsState_from(<<0, 0, 0, 0, 0, 0, 0, 0, 0, 0>>),
   consecutive_presses |-> [i \in 1..10 |-> 0]]

\* update_once that does not store the chord as last_handstate
FingerAlternation_update_once_keep_last(self, handstate) ==
  [self EXCEPT
     !.consecutive_presses =
       [i \in 1..10 |->
          IF self.last_handstate[i] = Pressed /\ handstate[i] = Pressed
            THEN self.consecutive_presses[i] + 1
            ELSE self.consecutive_presses[i]]]

\* update_once counting every press, whatever the chord before
FingerAlternation_update_once_every_press(self, handstate) ==
  [last_handstate |-> handstate,
   consecutive_presses |->
     [i \in 1..10 |->
        IF handstate[i] = Pressed
          THEN self.consecutive_presses[i] + 1
          ELSE self.consecutive_presses[i]]]

FingerAlternation_update_once(self, handstate) ==
  [last_handstate |-> handstate,
   consecutive_presses |->
     [i \in 1..10 |->
        IF self.last_handstate[i] = Pressed /\ handstate[i] = Pressed
          THEN self.consecutive_presses[i] + 1
          ELSE self.consecutive_presses[i]]]

FingerAlternation_score(self) ==
  f32_sum(Map([i \in 1..10 |-> self.consecutive_presses[i]], as_f32))

HandAlternation_new ==
  [last_hands_used |-> <<FALSE, FALSE>>, consecutive_presses |-> <<0, 0>>]

\* update_once taking a hand as used only when all its fingers are Pressed
HandAlternation_update_once_all(self, handstate) ==
  LET next_hand_used(h) ==
        \A i \in 1..5 : hand_iter(handstate)[h][i] = Pressed
  IN [last_hands_used |-> [h \in 1..2 |-> next_hand_used(h)],
      consecutive_presses |->
        [h \in 1..2 |->
           IF self.last_hands_used[h] /\ next_hand_used(h)
             THEN self.consecutive_presses[h] + 1
             ELSE self.consecutive_presses[h]]]

HandAlternation_update_once(self, handstate) ==
  LET next_hand_used(h) ==
        \E i \in 1..5 : hand_iter(handstate)[h][i] = Pressed
  IN [last_hands_used |-> [h \in 1..2 |-> next_hand_used(h)],
      consecutive_presses |->
        [h \in 1..2 |->
           IF self.last_hands_used[h] /\ next_hand_used(h)
             THEN self.consecutive_presses[h] + 1
             ELSE self.consecutive_presses[h]]]

HandAlternation_score(self) ==
  f32_sum(Map([h \in 1..2 |-> self.consecutive_presses[h]], as_f32))

\* 1.0 in the unit of the f32 that are not natural numbers, 2^-29: every
\* f32 from 2^-6 to 2 is a whole number of units
F32_ONE == 32 * F32_EXACT

\* a f32 that is not a number
NaN == [nan |-> TRUE, units |-> 0]

\* the f32 of so many units
f32(units) == [nan |-> FALSE, units |-> units]

\* a / b in units, rounded down, and what is left of a: long division, a
\* binary digit at a time
RECURSIVE long_division(_, _, _)
long_division(a, b, unit) ==
  IF unit = 1 THEN [quotient |-> a \div b, remainder |-> a % b]
  ELSE LET rest == long_division(2 * (a % b), b, unit \div 2)
       IN [quotient |-> (a \div b) * unit + rest.quotient,
           remainder |-> rest.remainder]

\* a / b of two f32 that are natural numbers: the nearest f32, ties to the
\* even significand; 0.0 / 0.0 is not a number
f32_div(a, b) ==
  IF b = 0 /\ a = 0 THEN NaN
  ELSE LET exact == long_division(a, b, F32_ONE)
           ulp == f32_ulp(exact.quotient)
           q == exact.quotient \div ulp
           r == exact.quotient % ulp
           twice == 2 * (r * b + exact.remainder)
       IN IF twice > ulp * b \/ (twice = ulp * b /\ q % 2 = 1)
          THEN f32((q + 1) * ulp)
          ELSE f32(q * ulp)

\* a - b of two f32
f32_sub(a, b) ==
  IF a.nan \/ b.nan THEN NaN
  ELSE IF a.units >= b.units THEN f32(as_f32(a.units - b.units))
  ELSE f32(0 - as_f32(b.units - a.units))

\* f32::abs
f32_abs(a) == IF a.nan \/ a.units >= 0 THEN a ELSE f32(0 - a.units)

\* Iterator::sum of f32 that are not negative: the additions one after the
\* other, from 0.0
RECURSIVE f32_fold_add(_, _)
f32_fold_add(acc, values) ==
  IF values = <<>> THEN acc
  ELSE LET value == Head(values)
       IN f32_fold_add(IF acc.nan \/ value.nan THEN NaN
                       ELSE f32(as_f32(acc.units + value.units)),
                       Tail(values))

\* the score of both balance accumulators: the press ratios against the
\* target ratios
Balance_score_no_abs(self) ==
  LET total_presses == as_f32(u32_sum(self.presses))
      ratio == Map(self.presses, LAMBDA v : f32_div(as_f32(v), total_presses))
  IN f32_fold_add(f32(0),
       [i \in 1..Len(ratio) |-> f32_sub(ratio[i], self.target_ratio[i])])

Balance_score(self) ==
  LET total_presses == as_f32(u32_sum(self.presses))
      ratio == Map(self.presses, LAMBDA v : f32_div(as_f32(v), total_presses))
  IN f32_fold_add(f32(0),
       [i \in 1..Len(ratio) |->
          f32_abs(f32_sub(ratio[i], self.target_ratio[i]))])

\* set_ratio of both balance accumulators: the target ratios divided by
\* their sum
Balance_set_ratio(self, target_ratio) ==
  LET sum == f32_sum(target_ratio)
  IN [self EXCEPT !.target_ratio = Map(target_ratio, LAMBDA r : f32_div(r, sum))]

\* #[derive(Default)]: every field the default of its type
FingerBalance_default ==
  [presses |-> [i \in 1..10 |-> 0], target_ratio |-> [i \in 1..10 |-> f32(0)]]

FingerBalance_new ==
  [presses |-> [i \in 1..10 |-> 0],
   target_ratio |-> [i \in 1..10 |-> f32_div(1, 10)]]

FingerBalance_new_with_ratio(target_ratio) ==
  Balance_set_ratio(FingerBalance_new, target_ratio)

\* update_once keeping the presses of the chord alone
FingerBalance_update_once_replace(self, handstate) ==
  [self EXCEPT !.presses =
     [i \in 1..10 |-> u32_from_FingerState(handstate[i])]]

FingerBalance_update_once(self, handstate) ==
  [self EXCEPT !.presses =
     [i \in 1..10 |-> self.presses[i] + u32_from_FingerState(handstate[i])]]

FingerBalance_score(self) == Balance_score(self)

\* impl From<FingerUsage> for FingerBalance
FingerBalance_from_FingerUsage(value) ==
  [presses |-> value.presses,
   target_ratio |-> [i \in 1..10 |-> f32_div(1, 10)]]

\* #[derive(Default)]: every field the default of its type
HandBalance_default ==
  [presses |-> <<0, 0>>, target_ratio |-> <<f32(0), f32(0)>>]

HandBalance_new ==
  [presses |-> <<0, 0>>, target_ratio |-> <<f32_div(1, 2), f32_div(1, 2)>>]

HandBalance_new_with_ratio(target_ratio) ==
  Balance_set_ratio(HandBalance_new, target_ratio)

HandBalance_update_once(self, handstate) ==
  [self EXCEPT !.presses =
     [h \in 1..2 |->
        self.presses[h]
          + u32_sum(Map(hand_iter(handstate)[h], u32_from_FingerState))]]

HandBalance_score(self) == Balance_score(self)

\* impl From<HandUsage> for HandBalance
HandBalance_from_HandUsage(value) ==
  [presses |-> value.presses,
   target_ratio |-> <<f32_div(1, 2), f32_div(1, 2)>>]

\* the conversion taking the target ratio of the first finger of each hand
HandBalance_from_FingerBalance_first_ratio(value) ==
  [presses |-> <<u32_sum(SubSeq(value.presses, 1, 5)),
                 u32_sum(SubSeq(value.presses, 6, 10))>>,
   target_ratio |-> <<value.target_ratio[1], value.target_ratio[6]>>]

\* impl From<FingerBalance> for HandBalance: split_at(5) and the two sums,
\* of the counters and of the target ratios
HandBalance_from_FingerBalance(value) ==
  [presses |-> <<u32_sum(SubSeq(value.presses, 1, 5)),
                 u32_sum(SubSeq(value.presses, 6, 10))>>,
   target_ratio |->
     <<f32_fold_add(f32(0), SubSeq(value.target_ratio, 1, 5)),
       f32_fold_add(f32(0), SubSeq(value.target_ratio, 6, 10))>>]

\* Metric::update_once of the implementing type
Metric_update_once(kind, self, handstate) ==
  CASE kind = "FingerUsage" -> FingerUsage_update_once(self, handstate)
    [] kind = "HandUsage" -> HandUsage_update_once(self, handstate)
    [] kind = "FingerAlternation" ->
         FingerAlternation_update_once(self, handstate)
    [] kind = "HandAlternation" ->
         HandAlternation_update_once(self, handstate)
    [] kind = "FingerBalance" -> FingerBalance_update_once(self, handstate)
    [] kind = "HandBalance" -> HandBalance_update_once(self, handstate)

\* update taking the chords of the slice from the last to the first
RECURSIVE Metric_update_reversed(_, _, _)
Metric_update_reversed(kind, self, handstates) ==
  IF handstates = <<>> THEN self
  ELSE Metric_update_once(kind,
                          Metric_update_reversed(kind, self, Tail(handstates)),
                          Head(handstates))

\* Metric::update: update_once for each chord of the slice, in order
RECURSIVE Metric_update(_, _, _)
Metric_update(kind, self, handstates) ==
  IF handstates = <<>> THEN self
  ELSE Metric_update(kind, Metric_update_once(kind, self, Head(handstates)),
                     Tail(handstates))

\* Metric::updated: self is moved in, updated and returned
Metric_updated(kind, self, handstates) ==
  LET updated == Metric_update(kind, self, handstates)
  IN updated

---------------------------------------------------------------------------
(* The state machine: a keyboard is constructed, then texts are typed on   *)
(* it.                                                                     *)

\* the texts of at most n characters over the characters of a set
Texts(chars, n) == UNION {[1..len -> chars] : len \in 0..n}

\* a (Letters only), 1 (Symbols only), ! (both layers) and 0 (neither layer)
AsetniopChars == {97, 49, 33, 48}

\* the short texts over ?, which has the same chord in both layers, and a
AsetniopQuestionTexts == Texts({63, 97}, MaxTextLen)

\* a, Z, ?, newline and the carriage return, which has no chord
TenboardChars == {97, 90, 63, 10, 13}

\* a, b, c and X, which the TestKeyboard cannot type
TestKeyboardChars == {97, 98, 99, 88}

\* the keys and chords of the tables handed to TenboardUnconstrained::new
TableChars == {97, 98, 99}

TableChords == {iterate_one_key_no_thumbs[1], left_thumb}

TextsOf(self) ==
  CASE self.type = "Asetniop" ->
         Texts(AsetniopChars, MaxLen) \cup AsetniopQuestionTexts
    [] self.type = "TestKeyboard" -> Texts(TestKeyboardChars, MaxTextLen)
    [] self.type = "layout::TenboardUnconstrained" ->
         Texts(TableChars, MaxTextLen)
    [] OTHER -> Texts(TenboardChars, MaxTextLen)

Constructed(self) ==
  [op |-> "new", self |-> self, chars |-> <<>>, result |-> [tag |-> "New"]]

\* the keyboards the constructors build
Keyboards ==
  {Asetniop_default, TestKeyboard_new}
  \cup {TenboardUnconstrained_new_random(rng) :
          rng \in Rngs(Len(iterate_one_two_key_all_states))}
  \cup {TenboardThumbConstrained_new_random(gen_bool, rng) :
          gen_bool \in BOOLEAN,
          rng \in Rngs(Len(iterate_one_two_key_with_thumbs))}
  \cup {TenboardModifierConstrained_new_random(gen_bool, rng1, rng2) :
          gen_bool \in BOOLEAN,
          rng1 \in Rngs(Len(iterate_one_two_key_no_thumbs)),
          rng2 \in Rngs(Len(iterate_one_two_key_no_thumbs))}
  \cup {TenboardUnconstrained_new(layout) :
          layout \in UNION {[keys -> TableChords] : keys \in SUBSET TableChars}}

\* no keyboard was constructed, no HandsState function was called
NoKeyboard == [type |-> "None"]

NoCall ==
  [op |-> "None", self |-> NoKeyboard, chars |-> <<>>,
   result |-> [tag |-> "None"]]

NoHands == [op |-> "None"]

NoMetrics == [type |-> "None"]

\* how the balance accumulators are built
Constructors == {"new", "default", "new_with_ratio"}

\* the target ratios that callers supply to new_with_ratio
FingerTargetRatio == <<1, 1, 0, 0, 0, 0, 0, 0, 0, 0>>

HandTargetRatio == <<3, 7>>

\* the accumulators that are built, one of each type, to be fed the same
\* chords, the balance accumulators by the constructor made; converted
\* holds the accumulators that From::from makes of them
NewMetrics(made) ==
  [type |-> "Metric",
   made |-> made,
   finger_usage |-> FingerUsage_new,
   hand_usage |-> HandUsage_new,
   finger_alternation |-> FingerAlternation_new,
   hand_alternation |-> HandAlternation_new,
   finger_balance |->
     CASE made = "new" -> FingerBalance_new
       [] made = "default" -> FingerBalance_default
       [] made = "new_with_ratio" ->
            FingerBalance_new_with_ratio(FingerTargetRatio),
   hand_balance |->
     CASE made = "new" -> HandBalance_new
       [] made = "default" -> HandBalance_default
       [] made = "new_with_ratio" ->
            HandBalance_new_with_ratio(HandTargetRatio),
   converted |-> None]

\* Either a keyboard is constructed and typed on, or the functions of
\* HandsState are used on their own, or metric accumulators are built and
\* fed with chords.
Init ==
  \/ /\ keyboard \in Keyboards
     /\ call = Constructed(keyboard)
     /\ hands = NoHands
     /\ metrics = NoMetrics
     /\ fed = <<>>
  \/ /\ keyboard = NoKeyboard
     /\ call = NoCall
     /\ hands = NoHands
     /\ metrics \in {NoMetrics} \cup {NewMetrics(made) : made \in Constructors}
     /\ fed = <<>>

\* An Asetniop keeps its layer from one call to the next and is called again
\* and again; the other keyboards take one call after their construction.
MayCall == keyboard.type = "Asetniop" \/ call.op = "new"

Called(op, self, chars, done) ==
  /\ MayCall
  /\ keyboard' = done.self
  /\ call' = [op |-> op, self |-> self, chars |-> chars,
              result |-> done.result]
  /\ UNCHANGED <<hands, metrics, fed>>

AsetniopTryTypeChars ==
  /\ keyboard.type = "Asetniop"
  /\ \E chars \in TextsOf(keyboard) :
       Called("try_type_chars", keyboard, chars,
              Asetniop_try_type_chars(keyboard, chars))

TenboardTryTypeChars ==
  /\ keyboard.type \in {"TenboardUnconstrained", "TenboardThumbConstrained",
                        "TenboardModifierConstrained"}
  /\ \E chars \in TextsOf(keyboard) :
       Called("try_type_chars", keyboard, chars,
              Tenboard_try_type_chars(keyboard, chars))

\* serde_json::from_str(&serde_json::to_string(&tb)?): the layout is written
\* and the layout read back takes its place
SerdeRoundTrip ==
  /\ keyboard.type \in {"TenboardUnconstrained", "TenboardThumbConstrained",
                        "TenboardModifierConstrained"}
  /\ \E order \in {"ascending", "descending"} :
       LET json == Tenboard_serialize(keyboard, order)
           read == Tenboard_deserialize(keyboard.type, json)
       IN Called("from_str", keyboard, <<>>,
                 [self |-> IF read.tag = "Ok" THEN read.value ELSE keyboard,
                  result |-> IF read.tag = "Ok" THEN Ok(json) ELSE read])

TableTenboardTryTypeChars ==
  /\ keyboard.type = "layout::TenboardUnconstrained"
  /\ \E chars \in TextsOf(keyboard) :
       Called("try_type_chars", keyboard, chars,
              TableTenboard_try_type_chars(keyboard, chars))

TestKeyboardTryTypeChars ==
  /\ keyboard.type = "TestKeyboard"
  /\ \E chars \in TextsOf(keyboard) :
       Called("try_type_chars", keyboard, chars,
              TestKeyboard_try_type_chars(keyboard, chars))

TypeChars ==
  \E chars \in TextsOf(keyboard) :
    Called("type_chars", keyboard, chars,
           Keyboard_type_chars(keyboard, chars))

TypeCharsSkip ==
  /\ keyboard.type = "layout::TenboardUnconstrained"
  /\ \E chars \in TextsOf(keyboard) :
       Called("type_chars_skip", keyboard, chars,
              type_chars_skip(keyboard, chars))

---------------------------------------------------------------------------
(* HandsState on its own: the chord-space enumerators, each an iterator    *)
(* that is started, yields its chords one by one and then None, and        *)
(* combine.                                                                *)

ChordSpaces ==
  {"iterate_one_key_no_thumbs", "iterate_two_key_no_thumbs",
   "iterate_one_two_key_no_thumbs", "iterate_one_two_key_with_thumbs",
   "iterate_one_two_key_all_states"}

\* the chords the iterator of a chord space yields, in order
Enumerator(space) ==
  CASE space = "iterate_one_key_no_thumbs" -> iterate_one_key_no_thumbs
    [] space = "iterate_two_key_no_thumbs" -> iterate_two_key_no_thumbs
    [] space = "iterate_one_two_key_no_thumbs" -> iterate_one_two_key_no_thumbs
    [] space = "iterate_one_two_key_with_thumbs" ->
         iterate_one_two_key_with_thumbs
    [] space = "iterate_one_two_key_all_states" ->
         iterate_one_two_key_all_states

\* the chords combine is called on: those whose Pressed positions are among
\* the MaxSpan positions on each side of the middle of the array, where the
\* two thumbs are
CombineChords ==
  {HandsState_from([p \in 1..10 |-> IF p \in fingers THEN 1 ELSE 0]) :
     fingers \in SUBSET ((6 - MaxSpan)..(5 + MaxSpan))}

HandsOnly == keyboard = NoKeyboard /\ metrics = NoMetrics

\* HandsState::iterate_...(): a new iterator.  An iterator that is started
\* after the one of the same space was exhausted keeps, for comparison, what
\* that one yielded.
Iterate ==
  /\ HandsOnly
  /\ \E space \in ChordSpaces :
       hands' = [op |-> "iterate", space |-> space, rest |-> Enumerator(space),
                 collected |-> <<>>, done |-> FALSE,
                 previous |->
                   IF hands.op = "iterate" /\ hands.space = space
                      /\ hands.done
                     THEN Some(hands.collected) ELSE None]
  /\ UNCHANGED <<keyboard, call, metrics, fed>>

\* Iterator::next: the next chord, or None at the end
IteratorNext ==
  /\ HandsOnly
  /\ hands.op = "iterate"
  /\ ~hands.done
  /\ hands' =
       IF hands.rest = <<>> THEN [hands EXCEPT !.done = TRUE]
       ELSE [hands EXCEPT !.rest = Tail(@),
                          !.collected = Append(@, Head(hands.rest))]
  /\ UNCHANGED <<keyboard, call, metrics, fed>>

\* self.combine(&other), called before any enumerator is
Combine ==
  /\ HandsOnly
  /\ hands.op = "None"
  /\ \E self \in CombineChords, other \in CombineChords :
       hands' = [op |-> "combine", self |-> self, other |-> other,
                 result |-> combine(self, other)]
  /\ UNCHANGED <<keyboard, call, metrics, fed>>

---------------------------------------------------------------------------
(* Metric accumulators fed with chords.                                    *)

\* the chords fed: none pressed, the left pinky, all ten fingers, the left
\* thumb, the right thumb with the right index finger
MetricChords ==
  {HandsState_from(<<0, 0, 0, 0, 0, 0, 0, 0, 0, 0>>),
   HandsState_from(<<1, 0, 0, 0, 0, 0, 0, 0, 0, 0>>),
   HandsState_from(<<1, 1, 1, 1, 1, 1, 1, 1, 1, 1>>),
   HandsState_from(<<0, 0, 0, 0, 1, 0, 0, 0, 0, 0>>),
   HandsState_from(<<0, 0, 0, 0, 0, 1, 1, 0, 0, 0>>)}

\* the slices handed to update that the bound on the fed chords leaves room
\* for
Slices == UNION {[1..len -> MetricChords] : len \in 0..(MaxFed - Len(fed))}

\* the accumulators are fed until From::from consumes them
MayFeed == metrics # NoMetrics /\ metrics.converted = None

\* metric.update_once(&handstate), on each accumulator
UpdateOnce ==
  /\ MayFeed
  /\ Len(fed) < MaxFed
  /\ \E handstate \in MetricChords :
       /\ metrics' =
            [metrics EXCEPT
               !.finger_usage = Metric_update_once("FingerUsage", @, handstate),
               !.hand_usage = Metric_update_once("HandUsage", @, handstate),
               !.finger_alternation =
                 Metric_update_once("FingerAlternation", @, handstate),
               !.hand_alternation =
                 Metric_update_once("HandAlternation", @, handstate),
               !.finger_balance =
                 Metric_update_once("FingerBalance", @, handstate),
               !.hand_balance =
                 Metric_update_once("HandBalance", @, handstate)]
       /\ fed' = Append(fed, handstate)
  /\ UNCHANGED <<keyboard, call, hands>>

\* metric.update(&handstates), on each accumulator
Update ==
  /\ MayFeed
  /\ \E handstates \in Slices :
       /\ metrics' =
            [metrics EXCEPT
               !.finger_usage = FingerUsage_update(@, handstates),
               !.hand_usage = Metric_update("HandUsage", @, handstates),
               !.finger_alternation =
                 Metric_update("FingerAlternation", @, handstates),
               !.hand_alternation =
                 Metric_update("HandAlternation", @, handstates),
               !.finger_balance =
                 Metric_update("FingerBalance", @, handstates),
               !.hand_balance = Metric_update("HandBalance", @, handstates)]
       /\ fed' = fed \o handstates
  /\ UNCHANGED <<keyboard, call, hands>>

\* metric.updated(&handstates), on each accumulator, which takes the place
\* of the one moved in
Updated ==
  /\ MayFeed
  /\ \E handstates \in Slices :
       /\ metrics' =
            [metrics EXCEPT
               !.finger_usage = Metric_updated("FingerUsage", @, handstates),
               !.hand_usage = Metric_updated("HandUsage", @, handstates),
               !.finger_alternation =
                 Metric_updated("FingerAlternation", @, handstates),
               !.hand_alternation =
                 Metric_updated("HandAlternation", @, handstates),
               !.finger_balance =
                 Metric_updated("FingerBalance", @, handstates),
               !.hand_balance = Metric_updated("HandBalance", @, handstates)]
       /\ fed' = fed \o handstates
  /\ UNCHANGED <<keyboard, call, hands>>

\* From::from: the accumulators built from the fed ones
Convert ==
  /\ MayFeed
  /\ metrics' =
       [metrics EXCEPT !.converted =
          Some([hand_usage |->
                  HandUsage_from_FingerUsage(metrics.finger_usage),
                finger_balance |->
                  FingerBalance_from_FingerUsage(metrics.finger_usage),
                hand_balance |->
                  HandBalance_from_HandUsage(metrics.hand_usage),
                hand_balance_of_fingers |->
                  HandBalance_from_FingerBalance(metrics.finger_balance)])]
  /\ UNCHANGED <<keyboard, call, hands, fed>>

Next ==
  \/ UpdateOnce
  \/ Update
  \/ Updated
  \/ Convert
  \/ AsetniopTryTypeChars
  \/ TenboardTryTypeChars
  \/ SerdeRoundTrip
  \/ TableTenboardTryTypeChars
  \/ TestKeyboardTryTypeChars
  \/ TypeChars
  \/ TypeCharsSkip
  \/ Iterate
  \/ IteratorNext
  \/ Combine

Spec == Init /\ [][Next]_vars

TypeOK ==
  /\ keyboard.type \in {"Asetniop", "TenboardUnconstrained",
                        "TenboardThumbConstrained",
                        "TenboardModifierConstrained",
                        "layout::TenboardUnconstrained", "TestKeyboard",
                        "None"}
  /\ call.op \in {"new", "try_type_chars", "type_chars", "type_chars_skip",
                  "from_str", "None"}
  /\ hands.op \in {"iterate", "combine", "None"}
  /\ metrics.type \in {"Metric", "None"}
  /\ metrics # NoMetrics => metrics.made \in Constructors
  /\ fed \in Seq(MetricChords)
  /\ Len(fed) <= MaxFed

---------------------------------------------------------------------------
(* Properties of Asetniop::try_type_chars.                                 *)

AsetniopTried == call.op = "try_type_chars" /\ call.self.type = "Asetniop"

\* the layer after k swaps from the layer named start, and its table
LayerAfter(start, k) ==
  IF k % 2 = 0 THEN start
  ELSE IF start = "Letters" THEN "Symbols" ELSE "Letters"

TableOf(layer) == IF layer = "Letters" THEN LETTERS_LAYOUT ELSE SYMBOLS_LAYOUT

\* the tables current before and after the swap made for the i-th character
\* of the last call
PreTable(i) == TableOf(LayerAfter(call.self.layout.tag, i - 1))

PostTable(i) == TableOf(LayerAfter(call.self.layout.tag, i))

\* the number of chords the first i characters of the last call put out
RECURSIVE EmittedBy(_)
EmittedBy(i) ==
  IF i = 0 THEN 0
  ELSE EmittedBy(i - 1) + (IF call.chars[i] \in DOMAIN PreTable(i) THEN 3 ELSE 2)

\* C1: a new Asetniop is in the Letters layer, and after try_type_chars
\* succeeds on a text of n characters on a new keyboard the layer is Letters
\* when n is even and Symbols when n is odd.
C1_LayerParity ==
  /\ (call.op = "new" /\ keyboard.type = "Asetniop"
        => keyboard.layout = Layout_new_letters)
  /\ (AsetniopTried /\ call.self = Asetniop_default /\ call.result.tag = "Ok"
        => keyboard.layout = IF Len(call.chars) % 2 = 0
                               THEN Layout_new_letters
                               ELSE Layout_new_symbols)

\* a text of two or more characters typed on a new keyboard, one of them
\* absent from the layer current before its swap
C1_Witness ==
  /\ AsetniopTried /\ call.self = Asetniop_default /\ call.result.tag = "Ok"
  /\ Len(call.chars) >= 2
  /\ \E i \in 1..Len(call.chars) : call.chars[i] \notin DOMAIN PreTable(i)

\* C2: a character absent from the layer current before the swap and present
\* in the other layer is typeable, and it puts out the switch chord followed
\* by its chord of the other layer and nothing else.
C2_SwitchThenChord ==
  AsetniopTried =>
    /\ (\A i \in 1..Len(call.chars) :
          /\ call.chars[i] \notin DOMAIN PreTable(i)
          /\ call.chars[i] \in DOMAIN PostTable(i))
         => call.result.tag = "Ok"
    /\ call.result.tag = "Ok" =>
         /\ Len(call.result.value) = EmittedBy(Len(call.chars))
         /\ \A i \in 1..Len(call.chars) :
              call.chars[i] \notin DOMAIN PreTable(i) =>
                SubSeq(call.result.value, EmittedBy(i - 1) + 1, EmittedBy(i))
                  = <<SWITCH_COMBINATION, PostTable(i)[call.chars[i]]>>

\* such a character typed after another character
C2_Witness ==
  /\ AsetniopTried /\ call.result.tag = "Ok"
  /\ \E i \in 2..Len(call.chars) : call.chars[i] \notin DOMAIN PreTable(i)

\* C3 as stated: a character that is a key of both tables is typed with
\* exactly two chords.
C3_TwoChordsForBoth ==
  (/\ AsetniopTried
   /\ \A i \in 1..Len(call.chars) :
        call.chars[i] \in DOMAIN LETTERS_LAYOUT \cap DOMAIN SYMBOLS_LAYOUT)
    => /\ call.result.tag = "Ok"
       /\ Len(call.result.value) = 2 * Len(call.chars)

\* C3 amended: a character that is a key of both tables is typed with
\* exactly three chords: its chord of the layer current before the swap, the
\* switch chord, its chord of the layer current after the swap.
C3_ThreeChordsForBoth ==
  (/\ AsetniopTried
   /\ \A i \in 1..Len(call.chars) :
        call.chars[i] \in DOMAIN LETTERS_LAYOUT \cap DOMAIN SYMBOLS_LAYOUT)
    => /\ call.result.tag = "Ok"
       /\ Len(call.result.value) = 3 * Len(call.chars)
       /\ \A i \in 1..Len(call.chars) :
            SubSeq(call.result.value, 3 * i - 2, 3 * i)
              = <<PreTable(i)[call.chars[i]], SWITCH_COMBINATION,
                  PostTable(i)[call.chars[i]]>>

\* a character of both tables whose two chords differ has been typed
C3_Witness ==
  /\ AsetniopTried
  /\ Len(call.chars) >= 1
  /\ \A i \in 1..Len(call.chars) :
       /\ call.chars[i] \in DOMAIN LETTERS_LAYOUT \cap DOMAIN SYMBOLS_LAYOUT
       /\ LETTERS_LAYOUT[call.chars[i]] # SYMBOLS_LAYOUT[call.chars[i]]

\* the characters of the last call absent from the layer current after
\* their swap
NotFoundAt ==
  {i \in 1..Len(call.chars) : call.chars[i] \notin DOMAIN PostTable(i)}

FirstNotFound == CHOOSE i \in NotFoundAt : \A j \in NotFoundAt : i <= j

\* C4: try_type_chars returns Err(NoSuchChar{ch}) and no chord when a
\* character is not found in the layer current after its swap, ch being the
\* first such character of the text; it returns Ok when there is none.
C4_FirstNotFound ==
  AsetniopTried =>
    IF NotFoundAt = {} THEN call.result.tag = "Ok"
    ELSE /\ call.result.tag = "Err"
         /\ call.result = Err(NoSuchChar(call.chars[FirstNotFound]))

\* the call failed on a later character, found before its swap, after
\* chords had been produced for the earlier ones
C4_Witness ==
  /\ AsetniopTried /\ call.result.tag = "Err"
  /\ NotFoundAt # {}
  /\ FirstNotFound >= 2
  /\ call.chars[FirstNotFound] \in DOMAIN PreTable(FirstNotFound)
  /\ call.result.error.ch = call.chars[FirstNotFound]

---------------------------------------------------------------------------
(* Properties of the typing protocol on the keyboards without layers.      *)

TenboardTypes == {"TenboardUnconstrained", "TenboardThumbConstrained",
                  "TenboardModifierConstrained"}

\* the result of typing one character on a keyboard without layers
TypedOne(self, ch) ==
  CASE self.type \in TenboardTypes -> Tenboard_try_type_char(self, ch)
    [] self.type = "TestKeyboard" -> TestKeyboard_try_type_char(self, ch)
    [] self.type = "layout::TenboardUnconstrained" ->
         ok_or(HashMap_get(self.layout, ch), NoSuchChar(ch))

\* the characters of the last call that its keyboard cannot type
UntypeableAt ==
  {i \in 1..Len(call.chars) : TypedOne(call.self, call.chars[i]).tag = "Err"}

FirstUntypeable == CHOOSE i \in UntypeableAt : \A j \in UntypeableAt : i <= j

\* C5: try_type_chars of a table-backed layout returns Ok with one chord per
\* character, the i-th the chord of the i-th character, iff every character
\* is typeable; otherwise it returns Err(NoSuchChar{ch}) alone, ch being the
\* first untypeable character of the text.
C5_OneChordEachOrFirstError ==
  (call.op = "try_type_chars" /\ call.self.type # "Asetniop") =>
    IF UntypeableAt = {}
      THEN /\ call.result.tag = "Ok"
           /\ Len(call.result.value) = Len(call.chars)
           /\ \A i \in 1..Len(call.chars) :
                call.result.value[i] = TypedOne(call.self, call.chars[i]).value
      ELSE /\ call.result.tag = "Err"
           /\ call.result = Err(NoSuchChar(call.chars[FirstUntypeable]))

\* a Tenboard layout failed on the second character of a text
C5_Witness ==
  /\ call.op = "try_type_chars" /\ call.self.type \in TenboardTypes
  /\ call.result.tag = "Err"
  /\ UntypeableAt # {}
  /\ FirstUntypeable >= 2

\* C6: type_chars returns the chords of try_type_chars when try_type_chars
\* succeeds, and panics exactly when try_type_chars returns NoSuchChar{ch},
\* with a message that contains ch.
C6_TypeCharsUnwraps ==
  call.op = "type_chars" =>
    LET tried == Keyboard_try_type_chars(call.self, call.chars)
    IN /\ keyboard = tried.self
       /\ tried.result.tag = "Ok" => call.result = Returned(tried.result.value)
       /\ tried.result.tag = "Err" =>
            /\ call.result.tag = "Panicked"
            /\ \E k \in 1..Len(call.result.message) :
                 call.result.message[k] = tried.result.error.ch

\* type_chars panicked on a character that follows a typeable one
C6_Witness ==
  /\ call.op = "type_chars"
  /\ call.result.tag = "Panicked"
  /\ Len(call.chars) >= 2
  /\ Keyboard_try_type_chars(call.self, call.chars).result.error.ch
       # call.chars[1]

\* the characters of the last call that are keys of its keyboard's table
TableKeysAt == {i \in 1..Len(call.chars) : call.chars[i] \in DOMAIN call.self.layout}

\* C7: type_chars_skip never fails: it returns the chords of exactly the
\* typeable characters in input order, and the sequence of try_type_chars
\* when try_type_chars succeeds.
C7_SkipKeepsTypeable ==
  call.op = "type_chars_skip" =>
    /\ call.result.tag = "Returned"
    /\ Len(call.result.value) = Cardinality(TableKeysAt)
    /\ \A i \in TableKeysAt :
         call.result.value[Cardinality({j \in TableKeysAt : j <= i})]
           = call.self.layout[call.chars[i]]
    /\ LET tried == TableTenboard_try_type_chars(call.self, call.chars)
       IN tried.result.tag = "Ok" => call.result.value = tried.result.value

\* a typeable character was typed after a skipped one
C7_Witness ==
  /\ call.op = "type_chars_skip"
  /\ \E i \in TableKeysAt : \E j \in 1..(i - 1) : j \notin TableKeysAt

\* the chords a keyboard types the typable characters with
TypableChars == {TYPABLE_CHARS[i] : i \in 1..Len(TYPABLE_CHARS)}

ChordsTyped(self) ==
  {Tenboard_try_type_char(self, ch).value : ch \in TypableChars}

\* C8: in every TenboardUnconstrained of new_random every character of
\* TYPABLE_CHARS has a chord, no two characters have the same chord, and a
\* character that was not presented at construction yields NoSuchChar.
C8_UnconstrainedInjective ==
  keyboard.type = "TenboardUnconstrained" =>
    /\ \A ch \in TypableChars : Tenboard_try_type_char(keyboard, ch).tag = "Ok"
    /\ Cardinality(ChordsTyped(keyboard)) = Len(TYPABLE_CHARS)
    /\ Cardinality(TypableChars) = Len(TYPABLE_CHARS)
    /\ \A ch \in (0..255) \ TypableChars :
         Tenboard_try_type_char(keyboard, ch) = Err(NoSuchChar(ch))

\* a layout built from a shuffle that moved the first chord, typed on
C8_Witness ==
  /\ keyboard.type = "TenboardUnconstrained"
  /\ keyboard.layout[97] # iterate_one_two_key_all_states[1]
  /\ call.op = "try_type_chars" /\ call.result.tag = "Ok"
  /\ Len(call.chars) = 2 /\ call.chars[1] # call.chars[2]

\* C9: in every TenboardThumbConstrained of new_random space and newline
\* have the two different single-thumb chords, no other character has a
\* single-thumb chord, and the characters of TYPABLE_CHARS have pairwise
\* distinct chords of at most 3 pressed fingers.
C9_ThumbsReserved ==
  keyboard.type = "TenboardThumbConstrained" =>
    /\ Tenboard_try_type_char(keyboard, 32).tag = "Ok"
    /\ Tenboard_try_type_char(keyboard, 10).tag = "Ok"
    /\ {Tenboard_try_type_char(keyboard, 32).value,
        Tenboard_try_type_char(keyboard, 10).value} = {left_thumb, right_thumb}
    /\ left_thumb # right_thumb
    /\ \A ch \in (0..255) \ {32, 10} :
         Tenboard_try_type_char(keyboard, ch).tag = "Ok" =>
           Tenboard_try_type_char(keyboard, ch).value
             \notin {left_thumb, right_thumb}
    /\ \A ch \in TypableChars :
         /\ Tenboard_try_type_char(keyboard, ch).tag = "Ok"
         /\ count_pressed(Tenboard_try_type_char(keyboard, ch).value) <= 3
    /\ Cardinality(ChordsTyped(keyboard)) = Len(TYPABLE_CHARS)

\* a layout with the left thumb for the newline, the newline typed with
\* another character
C9_Witness ==
  /\ keyboard.type = "TenboardThumbConstrained"
  /\ keyboard.newline_hs = left_thumb
  /\ call.op = "try_type_chars" /\ call.result.tag = "Ok"
  /\ Len(call.chars) = 2 /\ call.chars[1] = 10 /\ call.chars[2] \notin {32, 10}
  /\ call.result.value[1] = left_thumb

\* C10: in every TenboardModifierConstrained of new_random try_type_char
\* succeeds for every character of TYPABLE_CHARS and the chords are pairwise
\* distinct.
C10_ModifierInjective ==
  keyboard.type = "TenboardModifierConstrained" =>
    /\ \A ch \in TypableChars : Tenboard_try_type_char(keyboard, ch).tag = "Ok"
    /\ Cardinality(ChordsTyped(keyboard)) = Len(TYPABLE_CHARS)

\* an uppercase letter and a punctuation character typed on a layout whose
\* two tables were shuffled differently
C10_Witness ==
  /\ keyboard.type = "TenboardModifierConstrained"
  /\ keyboard.lowercase_digit_layout[97] # iterate_one_two_key_no_thumbs[1]
  /\ call.op = "try_type_chars" /\ call.result.tag = "Ok"
  /\ call.chars = <<90, 63>>
  /\ count_pressed(call.result.value[1]) \in {2, 3}

---------------------------------------------------------------------------
(* The typing rule of TenboardModifierConstrained.                         *)

RECURSIVE SumOf(_)
SumOf(numbers) ==
  IF numbers = <<>> THEN 0 ELSE Head(numbers) + SumOf(Tail(numbers))

SetOf(s) == {s[i] : i \in 1..Len(s)}

NoThumb(hs) == hs[5] = Released /\ hs[6] = Released

---------------------------------------------------------------------------
(* Properties of the chord-space enumerators and of combine.               *)

\* the iterator over a chord space has yielded all its chords and then None
Exhausted(space) ==
  hands.op = "iterate" /\ hands.space = space /\ hands.done

\* C13: an exhausted iterator has yielded exactly 8 chords
\* (iterate_one_key_no_thumbs), 28 (iterate_two_key_no_thumbs), 36
\* (iterate_one_two_key_no_thumbs), 108 (iterate_one_two_key_with_thumbs) or
\* 110 (iterate_one_two_key_all_states).
C13_EnumeratorCounts ==
  /\ Exhausted("iterate_one_key_no_thumbs") => Len(hands.collected) = 8
  /\ Exhausted("iterate_two_key_no_thumbs") => Len(hands.collected) = 28
  /\ Exhausted("iterate_one_two_key_no_thumbs") => Len(hands.collected) = 36
  /\ Exhausted("iterate_one_two_key_with_thumbs") =>
       Len(hands.collected) = 108
  /\ Exhausted("iterate_one_two_key_all_states") =>
       Len(hands.collected) = 110

\* the iterator over the with-thumbs space after its last next()
C13_Witness ==
  /\ Exhausted("iterate_one_two_key_with_thumbs")
  /\ hands.rest = <<>>
  /\ hands.collected # <<>>

\* the chords an iterator has yielded from its from-th to its to-th
Yielded(from, to) == {hands.collected[k] : k \in from..to}

\* C14: no iterator yields a chord twice; of what the one-or-two-key
\* iterator yields the one-key and the two-key chords are disjoint; of what
\* the with-thumbs iterator yields the bare, the left-thumb and the
\* right-thumb thirds are pairwise disjoint and neither thumb alone is among
\* them; so each space has as many distinct chords as its count.
C14_PairwiseDistinct ==
  /\ hands.op = "iterate" =>
       \A i, j \in DOMAIN hands.collected :
         i # j => hands.collected[i] # hands.collected[j]
  /\ Exhausted("iterate_one_key_no_thumbs") =>
       Cardinality(Yielded(1, 8)) = 8
  /\ Exhausted("iterate_two_key_no_thumbs") =>
       Cardinality(Yielded(1, 28)) = 28
  /\ Exhausted("iterate_one_two_key_no_thumbs") =>
       /\ Yielded(1, 8) \cap Yielded(9, 36) = {}
       /\ Cardinality(Yielded(1, 36)) = 36
  /\ Exhausted("iterate_one_two_key_with_thumbs") =>
       /\ Yielded(1, 36) \cap Yielded(37, 72) = {}
       /\ Yielded(1, 36) \cap Yielded(73, 108) = {}
       /\ Yielded(37, 72) \cap Yielded(73, 108) = {}
       /\ left_thumb \notin Yielded(1, 108)
       /\ right_thumb \notin Yielded(1, 108)
       /\ Cardinality(Yielded(1, 108)) = 108
  /\ Exhausted("iterate_one_two_key_all_states") =>
       Cardinality(Yielded(1, 110)) = 110

\* the with-thumbs iterator at its end, both thumb-combined thirds yielded
C14_Witness ==
  /\ Exhausted("iterate_one_two_key_with_thumbs")
  /\ combine(hands.collected[1], left_thumb) \in Yielded(37, 72)
  /\ combine(hands.collected[1], right_thumb) \in Yielded(73, 108)

\* the positions (of the source, 0..9) a chord has Pressed
PressedPositions(hs) == {p \in 0..9 : hs[p + 1] = Pressed}

NoThumbsSpaces ==
  {"iterate_one_key_no_thumbs", "iterate_two_key_no_thumbs",
   "iterate_one_two_key_no_thumbs"}

\* C15 as claimed: the thumb slots are positions 4 and 9: left_thumb has
\* exactly position 4 Pressed, right_thumb exactly position 9, and every
\* chord a no-thumbs iterator yields has positions 4 and 9 Released.
C15_ThumbsAt4And9 ==
  /\ PressedPositions(left_thumb) = {4}
  /\ PressedPositions(right_thumb) = {9}
  /\ hands.op = "iterate" /\ hands.space \in NoThumbsSpaces =>
       \A k \in DOMAIN hands.collected :
         PressedPositions(hands.collected[k]) \cap {4, 9} = {}

\* C15 as amended: the thumb slots are positions 4 and 5: left_thumb has
\* exactly position 4 Pressed, right_thumb exactly position 5, and every
\* chord a no-thumbs iterator yields has positions 4 and 5 Released.
C15_ThumbsAt4And5 ==
  /\ PressedPositions(left_thumb) = {4}
  /\ PressedPositions(right_thumb) = {5}
  /\ hands.op = "iterate" /\ hands.space \in NoThumbsSpaces =>
       \A k \in DOMAIN hands.collected :
         PressedPositions(hands.collected[k]) \cap {4, 5} = {}

\* the one-or-two-key iterator at its end, having yielded a chord that
\* presses position 9
C15_Witness ==
  /\ Exhausted("iterate_one_two_key_no_thumbs")
  /\ \E k \in DOMAIN hands.collected :
       9 \in PressedPositions(hands.collected[k])

\* C16: every chord the two-key and the one-or-two-key no-thumbs iterators
\* yield has positions 4 and 5 Released; of the chords the with-thumbs
\* iterator yields, one with one finger pressed has positions 4 and 5
\* Released, one with two fingers pressed has at most one of them Pressed and
\* one with three fingers pressed has exactly one of them Pressed.
C16_ThumbsByCount ==
  hands.op = "iterate" =>
    \A k \in DOMAIN hands.collected :
      LET hs == hands.collected[k]
          thumbs == PressedPositions(hs) \cap {4, 5}
      IN /\ hands.space \in {"iterate_two_key_no_thumbs",
                             "iterate_one_two_key_no_thumbs"} =>
              thumbs = {}
         /\ hands.space = "iterate_one_two_key_with_thumbs" =>
              /\ count_pressed(hs) = 1 => thumbs = {}
              /\ count_pressed(hs) = 2 => Cardinality(thumbs) <= 1
              /\ count_pressed(hs) = 3 => Cardinality(thumbs) = 1

\* the with-thumbs iterator has yielded a two-finger chord without a thumb,
\* one with a thumb, and a three-finger chord
C16_Witness ==
  /\ hands.op = "iterate"
  /\ hands.space = "iterate_one_two_key_with_thumbs"
  /\ \E i, j, k \in DOMAIN hands.collected :
       /\ count_pressed(hands.collected[i]) = 2
       /\ PressedPositions(hands.collected[i]) \cap {4, 5} = {}
       /\ count_pressed(hands.collected[j]) = 2
       /\ PressedPositions(hands.collected[j]) \cap {4, 5} = {4}
       /\ count_pressed(hands.collected[k]) = 3
       /\ PressedPositions(hands.collected[k]) \cap {4, 5} = {5}

\* C17: count_pressed() is 1 for every chord the one-key iterator yields, 2
\* for every chord of the two-key iterator, 1 or 2 for every chord of the
\* one-or-two-key no-thumbs iterator, and 1, 2 or 3 for every chord of the
\* with-thumbs and the all-states iterators.
C17_CountPressed ==
  hands.op = "iterate" =>
    \A k \in DOMAIN hands.collected :
      count_pressed(hands.collected[k]) \in
        CASE hands.space = "iterate_one_key_no_thumbs" -> {1}
          [] hands.space = "iterate_two_key_no_thumbs" -> {2}
          [] hands.space = "iterate_one_two_key_no_thumbs" -> {1, 2}
          [] hands.space = "iterate_one_two_key_with_thumbs" -> {1, 2, 3}
          [] hands.space = "iterate_one_two_key_all_states" -> {1, 2, 3}

\* the all-states iterator at its end: chords of one, two and three fingers
\* were yielded, a thumb alone the last
C17_Witness ==
  /\ Exhausted("iterate_one_two_key_all_states")
  /\ {count_pressed(hands.collected[k]) : k \in DOMAIN hands.collected}
       = {1, 2, 3}
  /\ count_pressed(hands.collected[Len(hands.collected)]) = 1

\* the 8 positions that are not thumbs, ascending
NonThumbPositions == <<0, 1, 2, 3, 6, 7, 8, 9>>

\* the chord with exactly the positions of a set Pressed
ChordOf(positions) ==
  [p \in 1..10 |-> IF p - 1 \in positions THEN Pressed ELSE Released]

\* the pairs (i, j), i < j, of indices into NonThumbPositions, and the place
\* of a pair in their lexicographic order
Pairs == {pair \in (1..8) \X (1..8) : pair[1] < pair[2]}

LexBefore(a, b) == a[1] < b[1] \/ (a[1] = b[1] /\ a[2] < b[2])

LexRank(pair) == Cardinality({other \in Pairs : LexBefore(other, pair)}) + 1

\* the orders C18 states
AscendingOneKey ==
  [k \in 1..8 |-> ChordOf({NonThumbPositions[k]})]

LexicographicTwoKey ==
  [k \in 1..Cardinality(Pairs) |->
     LET pair == CHOOSE p \in Pairs : LexRank(p) = k
     IN ChordOf({NonThumbPositions[pair[1]], NonThumbPositions[pair[2]]})]

WithPosition(chords, position) ==
  [k \in DOMAIN chords |->
     ChordOf(PressedPositions(chords[k]) \cup {position})]

StatedOrder(space) ==
  LET no_thumbs == AscendingOneKey \o LexicographicTwoKey
      with_thumbs == no_thumbs \o WithPosition(no_thumbs, 4)
                               \o WithPosition(no_thumbs, 5)
  IN CASE space = "iterate_one_key_no_thumbs" -> AscendingOneKey
       [] space = "iterate_two_key_no_thumbs" -> LexicographicTwoKey
       [] space = "iterate_one_two_key_no_thumbs" -> no_thumbs
       [] space = "iterate_one_two_key_with_thumbs" -> with_thumbs
       [] space = "iterate_one_two_key_all_states" ->
            with_thumbs \o <<ChordOf({4}), ChordOf({5})>>

\* C18: each iterator yields its chords in the stated order: the one-key
\* chords by ascending non-thumb position; the two-key chords by pairs
\* (i, j), i < j, in lexicographic order; one-key then two-key; the no-thumbs
\* chords, then the same combined with the left thumb, then with the right
\* thumb; then, for all-states, the left thumb and the right thumb alone.
\* An iterator started again after the end yields the same sequence.
C18_EnumerationOrder ==
  hands.op = "iterate" =>
    /\ Len(hands.collected) <= Len(StatedOrder(hands.space))
    /\ hands.collected
         = SubSeq(StatedOrder(hands.space), 1, Len(hands.collected))
    /\ hands.done => hands.collected = StatedOrder(hands.space)
    /\ hands.previous.is_some =>
         /\ hands.collected
              = SubSeq(hands.previous.value, 1, Len(hands.collected))
         /\ hands.done => hands.collected = hands.previous.value

\* the all-states iterator, started a second time, at its end again
C18_Witness ==
  /\ Exhausted("iterate_one_two_key_all_states")
  /\ hands.previous.is_some
  /\ Len(hands.previous.value) > 2

\* C19: combine is commutative and idempotent: the chord a call
\* self.combine(other) returned is the one other.combine(self) returns, and
\* it is self when other is self.
C19_CombineCommutativeIdempotent ==
  hands.op = "combine" =>
    /\ hands.result = combine(hands.other, hands.self)
    /\ hands.self = hands.other => hands.result = hands.self

\* two chords that share a Pressed finger and each press one the other does
\* not were combined
C19_Witness ==
  /\ hands.op = "combine"
  /\ PressedPositions(hands.self) \cap PressedPositions(hands.other) # {}
  /\ PressedPositions(hands.self) \ PressedPositions(hands.other) # {}
  /\ PressedPositions(hands.other) \ PressedPositions(hands.self) # {}
  /\ PressedPositions(hands.result)
       = PressedPositions(hands.self) \cup PressedPositions(hands.other)

\* C30: combine is the OR of the two chords position by position, and the
\* chord it returns has at least as many Pressed fingers as each of the two
\* and at most as many as both together.
C30_CombineIsOr ==
  hands.op = "combine" =>
    /\ \A p \in 1..10 :
         hands.result[p] = Pressed
           <=> (hands.self[p] = Pressed \/ hands.other[p] = Pressed)
    /\ count_pressed(hands.result) >= count_pressed(hands.self)
    /\ count_pressed(hands.result) >= count_pressed(hands.other)
    /\ count_pressed(hands.result)
         <= count_pressed(hands.self) + count_pressed(hands.other)

\* two chords of two Pressed fingers with one in common were combined into
\* a chord of three
C30_Witness ==
  /\ hands.op = "combine"
  /\ count_pressed(hands.self) = 2
  /\ count_pressed(hands.other) = 2
  /\ count_pressed(hands.result) = 3

---------------------------------------------------------------------------
(* Properties of the random Tenboard layouts after their construction.     *)

TenboardTyped == call.op = "try_type_chars" /\ call.self.type \in TenboardTypes

Tables(self) ==
  IF self.type = "TenboardModifierConstrained"
  THEN <<self.lowercase_digit_layout, self.punctuation_layout>>
  ELSE <<self.layout>>

\* C29: a random layout is written as a map with one entry for each
\* character of its tables and, for the two constrained layouts, one entry
\* under the space and one under the newline; the layout read back from it
\* has the chord of the original for every key of each table of the
\* original, the same whitespace and newline chords, and the same result of
\* try_type_char for every typable character.
C29_SerdeRoundTrip ==
  call.op = "from_str" =>
    LET thumbs == IF call.self.type = "TenboardUnconstrained" THEN {}
                  ELSE {32, 10}
        tables == Tables(call.self)
    IN /\ call.result.tag = "Ok"
       /\ keyboard.type = call.self.type
       /\ {json_unescape(call.result.value[k].key) :
             k \in 1..Len(call.result.value)}
            = {<<ch>> : ch \in thumbs \cup UNION {DOMAIN tables[t] :
                                                    t \in 1..Len(tables)}}
       /\ Len(call.result.value)
            = Cardinality(thumbs)
                + SumOf([t \in 1..Len(tables) |-> Cardinality(DOMAIN tables[t])])
       /\ \A t \in 1..Len(tables) :
            \A key \in DOMAIN tables[t] :
              HashMap_get(Tables(keyboard)[t], key) = Some(tables[t][key])
       /\ thumbs # {} =>
            /\ keyboard.whitespace_hs = call.self.whitespace_hs
            /\ keyboard.newline_hs = call.self.newline_hs
       /\ \A ch \in TypableChars \cup TenboardChars :
            Tenboard_try_type_char(keyboard, ch)
              = Tenboard_try_type_char(call.self, ch)

\* a modifier-constrained layout was read back, the quote and the backslash
\* among its keys
C29_Witness ==
  /\ call.op = "from_str"
  /\ call.self.type = "TenboardModifierConstrained"
  /\ call.result.tag = "Ok"
  /\ {34, 92} \subseteq DOMAIN call.self.punctuation_layout
  /\ {34, 92} \subseteq DOMAIN keyboard.punctuation_layout
  /\ keyboard.punctuation_layout[34] = call.self.punctuation_layout[34]
  /\ 97 \in DOMAIN keyboard.lowercase_digit_layout

---------------------------------------------------------------------------
(* Properties of the metric accumulators.                                  *)

\* C20: counter i of a FingerUsage built by new() and fed a sequence of
\* chords is the number of fed chords with position i Pressed, and score()
\* is the sum of the counters, which is the sum of count_pressed() over the
\* fed chords.
C20_FingerUsageCounts ==
  metrics # NoMetrics =>
    LET presses == metrics.finger_usage.presses
    IN /\ \A i \in 0..9 :
            presses[i + 1]
              = Cardinality({k \in DOMAIN fed : i \in PressedPositions(fed[k])})
       /\ FingerUsage_score(metrics.finger_usage)
            = SumOf([i \in 1..10 |-> presses[i]])
       /\ FingerUsage_score(metrics.finger_usage)
            = SumOf([k \in DOMAIN fed |-> count_pressed(fed[k])])

\* a finger pressed in two of the fed chords and released in another
C20_Witness ==
  /\ metrics # NoMetrics
  /\ metrics.finger_usage.presses[1] = 2
  /\ Len(fed) > metrics.finger_usage.presses[1]
  /\ FingerUsage_score(metrics.finger_usage) > Len(fed)

\* the positions of each hand, the left then the right
HandPositions == <<0..4, 5..9>>

Converted == metrics # NoMetrics /\ metrics.converted.is_some

\* C21: the HandUsage that From makes of the FingerUsage fed a sequence has
\* the counters of the HandUsage built by new() and fed that sequence, which
\* are the sums of the finger counters 0..4 and 5..9, and its score is the
\* score of the FingerUsage.
C21_HandUsageFromFingerUsage ==
  Converted =>
    LET from == metrics.converted.value.hand_usage
        fingers == metrics.finger_usage.presses
    IN /\ from.presses = metrics.hand_usage.presses
       /\ \A h \in 1..2 :
            from.presses[h]
              = SumOf([k \in 1..5 |-> fingers[5 * (h - 1) + k]])
       /\ HandUsage_score(from) = FingerUsage_score(metrics.finger_usage)
       /\ HandUsage_score(metrics.hand_usage)
            = FingerUsage_score(metrics.finger_usage)

\* converted after chords that press several fingers of each hand
C21_Witness ==
  /\ Converted
  /\ metrics.converted.value.hand_usage.presses[1] > Len(fed)
  /\ metrics.converted.value.hand_usage.presses[2] > Len(fed)
  /\ metrics.hand_usage.presses[1] > metrics.hand_usage.presses[2]

\* the indices k of the fed chords such that P holds of the k-th and of the
\* one fed after it
ConsecutivePairs(P(_)) == {k \in 1..(Len(fed) - 1) : P(fed[k]) /\ P(fed[k + 1])}

\* C22: counter i of a FingerAlternation built by new() and fed c[0..n) is
\* the number of k with position i Pressed in c[k] and in c[k+1]; the first
\* chord increments no counter; score() is the sum of the counters, and it
\* is 0 exactly when no finger is Pressed in two consecutive chords.
C22_FingerAlternationCounts ==
  metrics # NoMetrics =>
    LET self == metrics.finger_alternation
        consecutive(i) ==
          ConsecutivePairs(LAMBDA hs : i \in PressedPositions(hs))
    IN /\ \A i \in 0..9 :
            self.consecutive_presses[i + 1] = Cardinality(consecutive(i))
       /\ Len(fed) <= 1 => \A i \in 1..10 : self.consecutive_presses[i] = 0
       /\ FingerAlternation_score(self)
            = SumOf([i \in 1..10 |-> self.consecutive_presses[i]])
       /\ FingerAlternation_score(self) = 0
            <=> \A i \in 0..9 : consecutive(i) = {}

\* three chords fed, a finger pressed in two consecutive ones
C22_Witness ==
  /\ metrics # NoMetrics
  /\ Len(fed) > 2
  /\ metrics.finger_usage.presses[1] = 2
  /\ metrics.finger_alternation.consecutive_presses[1] = 1
  /\ FingerAlternation_score(metrics.finger_alternation) > 1

\* C23: a hand is used in a chord when one of its 5 positions is Pressed;
\* the counter of hand h of a HandAlternation built by new() and fed c[0..n)
\* is the number of k with h used in c[k] and in c[k+1]; score() is the sum
\* of the two counters, and it is 0 exactly when no hand is used in two
\* consecutive chords.
C23_HandAlternationCounts ==
  metrics # NoMetrics =>
    LET self == metrics.hand_alternation
        used(h, hs) == PressedPositions(hs) \cap HandPositions[h] # {}
        consecutive(h) == ConsecutivePairs(LAMBDA hs : used(h, hs))
    IN /\ \A h \in 1..2 :
            /\ self.consecutive_presses[h] = Cardinality(consecutive(h))
            /\ fed # <<>> =>
                 (self.last_hands_used[h] <=> used(h, fed[Len(fed)]))
       /\ HandAlternation_score(self)
            = self.consecutive_presses[1] + self.consecutive_presses[2]
       /\ HandAlternation_score(self) = 0
            <=> \A h \in 1..2 : consecutive(h) = {}

\* the left hand used in consecutive chords with different fingers, the
\* right hand in one chord
C23_Witness ==
  /\ metrics # NoMetrics
  /\ metrics.hand_alternation.consecutive_presses = <<1, 0>>
  /\ metrics.hand_usage.presses[2] = 2
  /\ FingerAlternation_score(metrics.finger_alternation) = 0

---------------------------------------------------------------------------
(* Properties of FingerBalance and HandBalance.                            *)

Fed == metrics # NoMetrics /\ SumOf(metrics.hand_balance.presses) > 0

\* the target ratios that each constructor stands for, as the fractions
\* num[i] / den
FingerTarget(made) ==
  CASE made = "new" -> [num |-> [i \in 1..10 |-> 1], den |-> 10]
    [] made = "default" -> [num |-> [i \in 1..10 |-> 0], den |-> 1]
    [] made = "new_with_ratio" ->
         [num |-> FingerTargetRatio, den |-> SumOf(FingerTargetRatio)]

HandTarget(made) ==
  CASE made = "new" -> [num |-> <<1, 1>>, den |-> 2]
    [] made = "default" -> [num |-> <<0, 0>>, den |-> 1]
    [] made = "new_with_ratio" ->
         [num |-> HandTargetRatio, den |-> SumOf(HandTargetRatio)]

Abs(x) == IF x >= 0 THEN x ELSE 0 - x

\* the sum over i of |presses[i] / total - target[i]| as the fraction
\* num / den
L1Distance(presses, target) ==
  LET total == SumOf(presses)
  IN [num |-> SumOf([i \in 1..Len(presses) |->
                       Abs(presses[i] * target.den - target.num[i] * total)]),
      den |-> total * target.den]

\* a f32 is exactly the fraction
IsExactly(score, fraction) ==
  LET units == long_division(fraction.num, fraction.den, F32_ONE)
  IN ~score.nan /\ units.remainder = 0 /\ score.units = units.quotient

\* 0.000001 in units of the f32, rounded down
Rounding == F32_ONE \div 1000000

\* a f32 is the fraction to less than 0.000001
IsAbout(score, fraction) ==
  LET units == long_division(fraction.num, fraction.den, F32_ONE)
  IN ~score.nan /\ Abs(score.units - units.quotient) < Rounding

\* C24 as stated: once presses are counted, the score of a FingerBalance and
\* of a HandBalance is the sum over the fingers (hands) of
\* |count / total - target|: 1.6 for equal counts against the target
\* [1/2, 1/2, 0, ..., 0], 0.4 for [5, 5] against [0.3, 0.7].
C24_ExactL1 ==
  Fed =>
    /\ IsExactly(FingerBalance_score(metrics.finger_balance),
                 L1Distance(metrics.finger_balance.presses,
                            FingerTarget(metrics.made)))
    /\ IsExactly(HandBalance_score(metrics.hand_balance),
                 L1Distance(metrics.hand_balance.presses,
                            HandTarget(metrics.made)))

\* C24: once presses are counted, the score of a FingerBalance and of a
\* HandBalance is, to less than 0.000001, the sum over the fingers (hands)
\* of |count / total - target|; it is exactly 0 when every press ratio is
\* its target ratio and more than 0 otherwise; it is about 1.6 for equal
\* counts against the target [1/2, 1/2, 0, ..., 0] and about 0.4 for [5, 5]
\* against [0.3, 0.7].
C24_L1WithinRounding ==
  Fed =>
    LET finger_score == FingerBalance_score(metrics.finger_balance)
        finger_distance == L1Distance(metrics.finger_balance.presses,
                                      FingerTarget(metrics.made))
        hand_score == HandBalance_score(metrics.hand_balance)
        hand_distance == L1Distance(metrics.hand_balance.presses,
                                    HandTarget(metrics.made))
        equal_counts == \A i \in 1..10 :
                          metrics.finger_balance.presses[i]
                            = metrics.finger_balance.presses[1]
    IN /\ IsAbout(finger_score, finger_distance)
       /\ IsAbout(hand_score, hand_distance)
       /\ finger_score = f32(0) <=> finger_distance.num = 0
       /\ hand_score = f32(0) <=> hand_distance.num = 0
       /\ equal_counts /\ metrics.made = "new" =>
            finger_score = f32(0) /\ hand_score = f32(0)
       /\ equal_counts /\ metrics.made = "new_with_ratio" =>
            IsAbout(finger_score, [num |-> 16, den |-> 10])
       /\ metrics.hand_balance.presses = <<5, 5>>
            /\ metrics.made = "new_with_ratio" =>
            IsAbout(hand_score, [num |-> 4, den |-> 10])

\* equal counts against the target [1/2, 1/2, 0, ..., 0], and [5, 5] against
\* [0.3, 0.7], with scores that are not 1.6 and 0.4
C24_Witness ==
  /\ metrics # NoMetrics
  /\ metrics.made = "new_with_ratio"
  /\ metrics.finger_balance.presses = [i \in 1..10 |-> 1]
  /\ metrics.hand_balance.presses = <<5, 5>>
  /\ ~IsExactly(FingerBalance_score(metrics.finger_balance),
                [num |-> 16, den |-> 10])
  /\ FingerBalance_score(metrics.finger_balance).units > F32_ONE
  /\ HandBalance_score(metrics.hand_balance).units < F32_ONE \div 2

\* C25: a FingerBalance made from a FingerUsage and a HandBalance made from
\* a HandUsage have the counters, the target ratio and the score of
\* FingerBalance::new() and HandBalance::new() fed the same chords; a
\* HandBalance made from a FingerBalance has for each hand the sum of the
\* counters and the sum of the target ratios of its fingers, and is
\* HandBalance::new() fed the same chords when the finger target is uniform.
C25_DerivedBalanceMatchesFresh ==
  Converted =>
    LET fresh_fingers == Metric_update("FingerBalance", FingerBalance_new, fed)
        fresh_hands == Metric_update("HandBalance", HandBalance_new, fed)
        derived == metrics.converted.value
        of_fingers == derived.hand_balance_of_fingers
        target == FingerTarget(metrics.made)
    IN /\ derived.finger_balance = fresh_fingers
       /\ FingerBalance_score(derived.finger_balance)
            = FingerBalance_score(fresh_fingers)
       /\ derived.hand_balance = fresh_hands
       /\ HandBalance_score(derived.hand_balance)
            = HandBalance_score(fresh_hands)
       /\ \A h \in 1..2 :
            /\ of_fingers.presses[h]
                 = SumOf([k \in 1..5 |->
                            metrics.finger_balance.presses[5 * (h - 1) + k]])
            /\ IsExactly(of_fingers.target_ratio[h],
                         [num |-> SumOf([k \in 1..5 |->
                                           target.num[5 * (h - 1) + k]]),
                          den |-> target.den])
       /\ metrics.made = "new" =>
            /\ of_fingers = fresh_hands
            /\ HandBalance_score(of_fingers) = HandBalance_score(fresh_hands)

\* balance accumulators made of accumulators fed with chords that press
\* one hand more than the other
C25_Witness ==
  /\ Converted
  /\ metrics.made = "new"
  /\ Len(fed) > 1
  /\ metrics.converted.value.hand_balance_of_fingers.presses[1]
       > metrics.converted.value.hand_balance.presses[2]
  /\ metrics.converted.value.hand_balance.presses[2] > 0
  /\ HandBalance_score(metrics.converted.value.hand_balance_of_fingers).units
       > 0

\* the target ratio is the same for every finger (hand): 1/10 (1/2)
Uniform(target_ratio) ==
  \A i \in 1..Len(target_ratio) :
    target_ratio[i] = f32_div(1, Len(target_ratio))

\* C26: a balance accumulator made without a target ratio of the caller has
\* the uniform target ratio, 1/10 for each finger and 1/2 for each hand,
\* whether it is made by new(), by Default::default(), or from a
\* FingerUsage or a HandUsage.
C26_UniformWithoutCallerTarget ==
  /\ metrics # NoMetrics /\ metrics.made \in {"new", "default"} =>
       /\ Uniform(metrics.finger_balance.target_ratio)
       /\ Uniform(metrics.hand_balance.target_ratio)
  /\ Converted =>
       /\ Uniform(metrics.converted.value.finger_balance.target_ratio)
       /\ Uniform(metrics.converted.value.hand_balance.target_ratio)

---------------------------------------------------------------------------
(* The order of the chords fed.                                            *)

\* the sequences that have the chords of s in another order, and s
Reordered(s) ==
  {[k \in 1..Len(s) |-> s[order[k]]] : order \in Permutations(1..Len(s))}

MetricKinds ==
  {"FingerUsage", "HandUsage", "FingerAlternation", "HandAlternation",
   "FingerBalance", "HandBalance"}

\* the accumulator of a kind among the accumulators built
Accumulator(all, kind) ==
  CASE kind = "FingerUsage" -> all.finger_usage
    [] kind = "HandUsage" -> all.hand_usage
    [] kind = "FingerAlternation" -> all.finger_alternation
    [] kind = "HandAlternation" -> all.hand_alternation
    [] kind = "FingerBalance" -> all.finger_balance
    [] kind = "HandBalance" -> all.hand_balance

Metric_score(kind, self) ==
  CASE kind = "FingerUsage" -> f32(FingerUsage_score(self))
    [] kind = "HandUsage" -> f32(HandUsage_score(self))
    [] kind = "FingerAlternation" -> f32(FingerAlternation_score(self))
    [] kind = "HandAlternation" -> f32(HandAlternation_score(self))
    [] kind = "FingerBalance" -> FingerBalance_score(self)
    [] kind = "HandBalance" -> HandBalance_score(self)

\* a chord as a number, a binary digit for each finger
RECURSIVE Code(_)
Code(hs) == IF hs = <<>> THEN 0 ELSE Head(hs) + 2 * Code(Tail(hs))

\* the chords of s from the least code to the greatest: each chord goes
\* after the chords that are less, and after the equal ones that precede it
Sorted(s) ==
  LET place(k) == Cardinality({j \in 1..Len(s) :
                                 \/ Code(s[j]) < Code(s[k])
                                 \/ Code(s[j]) = Code(s[k]) /\ j <= k})
  IN [at \in 1..Len(s) |-> s[CHOOSE k \in 1..Len(s) : place(k) = at]]

\* the accumulators just built, no chord fed
JustBuilt == MayFeed /\ fed = <<>>

\* there are two sequences with the same chords in different orders that
\* leave the accumulator in different states
OrderSensitive(kind) ==
  \E s1 \in Slices :
    \E s2 \in Reordered(s1) :
      Metric_update(kind, Accumulator(metrics, kind), s1)
        # Metric_update(kind, Accumulator(metrics, kind), s2)

\* C27 as stated: each of the six accumulators is order-sensitive.
C27_AllOrderSensitive ==
  JustBuilt => \A kind \in MetricKinds : OrderSensitive(kind)

\* C27: FingerAlternation and HandAlternation are order-sensitive, there are
\* two sequences with the same chords in different orders that leave them
\* in different states, with different scores; FingerUsage, HandUsage,
\* FingerBalance and HandBalance are not: whatever the order the chords were
\* fed in, they are in the state that the same chords leave them in when
\* fed from the least to the greatest.
C27_OnlyAlternationOrderSensitive ==
  /\ JustBuilt =>
       \A kind \in {"FingerAlternation", "HandAlternation"} :
         \E s1 \in Slices :
           \E s2 \in Reordered(s1) :
             Metric_score(kind, Metric_update(kind, Accumulator(metrics, kind), s1))
               # Metric_score(kind, Metric_update(kind, Accumulator(metrics, kind), s2))
  /\ MayFeed =>
       \A kind \in {"FingerUsage", "HandUsage", "FingerBalance", "HandBalance"} :
         Metric_update(kind, Accumulator(NewMetrics(metrics.made), kind),
                       Sorted(fed))
           = Accumulator(metrics, kind)

\* three chords fed of which another order gives another score of the
\* FingerAlternation and the same FingerUsage
C27_Witness ==
  /\ metrics # NoMetrics
  /\ Len(fed) = 3
  /\ \E s2 \in Reordered(fed) :
       /\ FingerAlternation_score(
            Metric_update("FingerAlternation", FingerAlternation_new, s2))
            # FingerAlternation_score(metrics.finger_alternation)
       /\ Metric_update("FingerUsage", FingerUsage_new, s2)
            = metrics.finger_usage
  /\ metrics.finger_usage.presses[1] = 2

---------------------------------------------------------------------------
(* Properties of Metric::update and Metric::updated.                       *)

\* update_once called with each chord of s, the last call with the last
RECURSIVE OneByOne(_, _, _)
OneByOne(kind, self, s) ==
  IF s = <<>> THEN self
  ELSE Metric_update_once(kind,
                          OneByOne(kind, self, SubSeq(s, 1, Len(s) - 1)),
                          s[Len(s)])

\* C31: however the chords fed were handed over, one by one to update_once
\* or in slices to update or to updated, slices without chords among them,
\* every accumulator is in the state that update_once called with each
\* chord fed, in the order fed, leaves the accumulator that was built; so
\* update(s1) and update(s2) do as update(s1 ++ s2), update of no chords
\* changes nothing, and updated(s) returns the accumulator that update(s)
\* leaves.
C31_UpdateIsUpdateOnceInOrder ==
  MayFeed =>
    \A kind \in MetricKinds :
      /\ Accumulator(metrics, kind)
           = OneByOne(kind, Accumulator(NewMetrics(metrics.made), kind), fed)
      /\ \A k \in 0..Len(fed) :
           LET s1 == SubSeq(fed, 1, k)
               s2 == SubSeq(fed, k + 1, Len(fed))
               first == Metric_update(kind,
                          Accumulator(NewMetrics(metrics.made), kind), s1)
           IN /\ Metric_update(kind, first, s2) = Accumulator(metrics, kind)
              /\ Metric_updated(kind, first, s2) = Accumulator(metrics, kind)
      /\ Metric_update(kind, Accumulator(metrics, kind), <<>>)
           = Accumulator(metrics, kind)

\* three chords were fed that the order of tells on the accumulators
C31_Witness ==
  /\ metrics # NoMetrics
  /\ Len(fed) = 3
  /\ fed[1] # fed[2]
  /\ fed[2] = fed[3]
  /\ metrics.finger_alternation.consecutive_presses[6] = 1
  /\ metrics.finger_usage.presses[1] = 1
  /\ metrics.hand_balance.presses = <<1, 4>>

---------------------------------------------------------------------------
(* Properties of the layers of Asetniop.                                   *)

\* the last call was made on an Asetniop as constructed
FreshTried == AsetniopTried /\ call.self = Asetniop_default

\* the table that decides on the character at index i, counted from 0, of a
\* text typed on a new keyboard
Deciding(i) == IF i % 2 = 0 THEN SYMBOLS_LAYOUT ELSE LETTERS_LAYOUT

\* the indices, counted from 0, of the characters that their deciding table
\* has no chord for
Rejected == {i \in 0..(Len(call.chars) - 1) :
               call.chars[i + 1] \notin DOMAIN Deciding(i)}

\* C32: try_type_chars on a new Asetniop succeeds iff every character at an
\* even index, counted from 0, is a key of the Symbols table and every
\* character at an odd index a key of the Letters table; a character that
\* only the other table, the one current before its swap, has a chord for is
\* rejected with NoSuchChar.
C32_AcceptanceByParity ==
  FreshTried =>
    /\ call.result.tag = "Ok" <=> Rejected = {}
    /\ \A i \in Rejected :
         (\A j \in Rejected : i <= j) =>
           call.result = Err(NoSuchChar(call.chars[i + 1]))
    /\ \A i \in 0..(Len(call.chars) - 1) :
         /\ call.chars[i + 1] \in DOMAIN Deciding(i + 1)
         /\ call.chars[i + 1] \notin DOMAIN Deciding(i)
         => call.result.tag = "Err"

\* the second character of a text typed on a new keyboard has a chord in the
\* Symbols table, current before its swap, and none in the Letters table:
\* the call failed on it
C32_Witness ==
  /\ FreshTried
  /\ Len(call.chars) > 1
  /\ call.chars[1] \in DOMAIN SYMBOLS_LAYOUT
  /\ call.chars[2] \in DOMAIN SYMBOLS_LAYOUT
  /\ call.chars[2] \notin DOMAIN LETTERS_LAYOUT
  /\ call.result = Err(NoSuchChar(call.chars[2]))

\* the layer of the name
LayerOf(tag) == IF tag = "Letters" THEN Layout_new_letters
                ELSE Layout_new_symbols

\* the places, counted from 1, of the characters of a text typed from the
\* layer named start that the layer current after their swap has no chord for
FailingFrom(start, chars) ==
  {k \in 1..Len(chars) : chars[k] \notin DOMAIN TableOf(LayerAfter(start, k))}

\* a step that is a call of try_type_chars on an Asetniop
AsetniopCalled ==
  /\ keyboard.type = "Asetniop"
  /\ call'.op = "try_type_chars"
  /\ call' # call

\* C33: Asetniop does not restore its layer: a call of try_type_chars starts
\* from the layer the call before it left, and a call that fails on its k-th
\* character leaves the layer swapped exactly k times from the one it started
\* from.
C33_LayerKeptAcrossCalls ==
  [][AsetniopCalled =>
       /\ call'.self = keyboard
       /\ call'.self.layout = LayerOf(keyboard.layout.tag)
       /\ LET failing == FailingFrom(keyboard.layout.tag, call'.chars)
          IN \A k \in failing :
               (\A j \in failing : k <= j) =>
                 /\ call'.result.tag = "Err"
                 /\ keyboard'.layout =
                      LayerOf(LayerAfter(keyboard.layout.tag, k))]_vars

\* a call on a new keyboard failed on its first character and left the
\* keyboard in Symbols, where the same text is typed with success
C33_Witness ==
  /\ FreshTried
  /\ call.result.tag = "Err"
  /\ 1 \in FailingFrom("Letters", call.chars)
  /\ keyboard.layout = Layout_new_symbols
  /\ Asetniop_try_type_chars(keyboard, call.chars).result.tag = "Ok"

\* the places in the output of the last call where the switch chord was
\* put as the switch: the one before the last chord of each character
SwitchPlaces == {EmittedBy(i) - 1 : i \in 1..Len(call.chars)}

\* C34: the switch chord differs from the chord either table has for any
\* character typed, so in the chords a call puts out the switch chord is
\* found at the places of the switches and nowhere else.
C34_SwitchChordDistinct ==
  (AsetniopTried /\ call.result.tag = "Ok") =>
    /\ \A i \in 1..Len(call.chars) :
         \A table \in {LETTERS_LAYOUT, SYMBOLS_LAYOUT} :
           call.chars[i] \in DOMAIN table =>
             table[call.chars[i]] # SWITCH_COMBINATION
    /\ {p \in 1..Len(call.result.value) :
          call.result.value[p] = SWITCH_COMBINATION} = SwitchPlaces

---------------------------------------------------------------------------
(* Properties of the tables of TenboardModifierConstrained::new_random.    *)

\* new_random has just built a TenboardModifierConstrained
ModifierBuilt ==
  call.op = "new" /\ keyboard.type = "TenboardModifierConstrained"

\* a chord with the newline thumb of the keyboard released
WithoutNewlineThumb(hs) ==
  [q \in 1..10 |-> IF keyboard.newline_hs[q] = Pressed THEN Released
                   ELSE hs[q]]

---------------------------------------------------------------------------
(* Properties relating the alternation counters to the usage counters.     *)

\* C36: fed the same chords, the FingerAlternation counter of a finger is at
\* most the HandAlternation counter of its hand and at most one less than the
\* FingerUsage counter of the finger, or 0 when that one is 0; so the
\* FingerAlternation score is 0 whenever the HandAlternation score is.
C36_FingerAlternationBounded ==
  metrics # NoMetrics =>
    LET finger == metrics.finger_alternation.consecutive_presses
        hand == metrics.hand_alternation.consecutive_presses
        presses == metrics.finger_usage.presses
    IN /\ \A h \in 1..2 : \A i \in HandPositions[h] : finger[i + 1] <= hand[h]
       /\ \A i \in 0..9 :
            finger[i + 1] <= (IF presses[i + 1] > 0 THEN presses[i + 1] - 1
                              ELSE 0)
       /\ Metric_score("HandAlternation", metrics.hand_alternation) = f32(0)
            => Metric_score("FingerAlternation", metrics.finger_alternation)
                 = f32(0)

\* the left thumb, then the left pinky twice: the pinky was pressed twice and
\* once after itself, the left hand was used twice after itself
C36_Witness ==
  /\ metrics # NoMetrics
  /\ Len(fed) = 3
  /\ metrics.finger_usage.presses[1] = 2
  /\ metrics.finger_alternation.consecutive_presses[1] = 1
  /\ metrics.hand_alternation.consecutive_presses = <<2, 0>>

=============================================================================
